---- MODULE Spec2Model ----
(***************************************************************************)
(* Kabo server (src/server/server.js): the room registry, the game state   *)
(* machine, the action handlers and the view projection.                   *)
(*                                                                         *)
(* Encoding of JavaScript values:                                          *)
(*   - a nullable object (activeDraw, pending, centerPower, ended, a       *)
(*     request argument that may be missing, a hand slot of a broadcast)   *)
(*     is a sequence of length 0 (null / undefined) or 1 (the value);      *)
(*   - a nullable socket id is a string, Null when null;                   *)
(*   - a card is a record [r, s]; the value read from an array at an index *)
(*     that holds nothing is the card Undefined, on which baseValue,       *)
(*     scoreValue and isPowerCard throw a TypeError;                       *)
(*   - the log, the valentine fields and their handlers carry no game      *)
(*     state and are left out.                                             *)
(***************************************************************************)
EXTENDS Integers, Sequences, FiniteSets, TLC

VARIABLES rooms,   \* the registry Map, as the sequence of rooms in insertion order
          ack,     \* the argument of the last acknowledgement callback, <<>> when none
          outbox,  \* the events emitted by the last handler, in order
          draws,   \* cards popped from the draw pile in the current round (bounds the runs)
          missing, \* requests sent without an index in the current round (bounds the runs)
          connected \* the socket ids of the open connections

vars == <<rooms, ack, outbox, draws, missing, connected>>

\* ---------------------------------------------------------------- bounds
NumSeeds == 2
MaxDraws == 1
MaxMissing == 1

Sockets == {"s1", "s2", "s3"}
RoomIds == {"R1"}
Seeds == 0..(NumSeeds - 1)
IndexArgs == {<<>>, <<0 - 1>>, <<0>>, <<3>>, <<4>>}
SourceArgs == {<<>>, <<"draw">>, <<"discard">>}
NameOf(sock) == "name-" \o sock

Null == "null"
Undefined == [r |-> "undefined", s |-> "undefined"]

\* ---------------------------------------------------------------- deck
suits == <<"S", "H", "D", "C">>
ranks == <<"A", "2", "3", "4", "5", "6", "7", "8", "9", "10", "J", "Q", "K">>

makeDeck ==
  [k \in 1..(Len(suits) * Len(ranks)) |->
     [r |-> ranks[((k - 1) % Len(ranks)) + 1],
      s |-> suits[((k - 1) \div Len(ranks)) + 1]]]

\* parseInt(card.r, 10) on the number ranks "2".."10"
parseInt(str) == CHOOSE n \in 2..10 : ranks[n] = str

baseValue(card) ==
  IF card.r = "A" THEN 1
  ELSE IF card.r = "J" THEN 11
  ELSE IF card.r = "Q" THEN 12
  ELSE IF card.r = "K" THEN 13
  ELSE parseInt(card.r)

scoreValue(card) ==
  IF card.r = "K" /\ (card.s = "H" \/ card.s = "D") THEN 0 - 1
  ELSE baseValue(card)

isPowerCard(card) == card.r \in {"7", "8", "9", "10", "J", "Q", "K"}

sameRank(a, b) == a # Undefined /\ b # Undefined /\ a.r = b.r

\* crypto.randomInt(0, i + 1): the random source is an input of the program; a
\* seed names one stream of it, x being the state of the stream
nextRandom(x) == (42 * x + 15) % 101
randomInt(x, i) == nextRandom(x) % (i + 1)

swapAt(a, i, j) == [a EXCEPT ![i + 1] = a[j + 1], ![j + 1] = a[i + 1]]

RECURSIVE shuffleFrom(_, _, _)
shuffleFrom(a, i, x) ==
  IF i <= 0 THEN a
  ELSE shuffleFrom(swapAt(a, i, randomInt(x, i)), i - 1, nextRandom(x))

shuffle(a, seed) == shuffleFrom(a, Len(a) - 1, seed)

\* ---------------------------------------------------------------- arrays
\* a slot of an array that was never assigned (left by a write past the end)
Hole == [r |-> "hole", s |-> "hole"]

Max(a, b) == IF a >= b THEN a ELSE b

\* a[n] for a number n
slot(a, n) ==
  IF n < 0 \/ n >= Len(a) THEN Undefined
  ELSE IF a[n + 1] = Hole THEN Undefined ELSE a[n + 1]

\* a[n] = c for a number n >= 0
setSlot(a, n, c) ==
  [k \in 1..Max(Len(a), n + 1) |->
     IF k = n + 1 THEN c ELSE IF k <= Len(a) THEN a[k] ELSE Hole]

\* a.splice(n, 1) for a number n >= 0: the array without slot n
spliceOut(a, n) ==
  IF n >= Len(a) THEN a
  ELSE [k \in 1..(Len(a) - 1) |-> IF k <= n THEN a[k] ELSE a[k + 1]]

\* the start index splice(index, 1) uses: a missing index converts to 0
spliceStart(index) == IF index = <<>> THEN 0 ELSE index[1]

\* a.at(-1), a.pop()
last(a) == IF Len(a) = 0 THEN Undefined ELSE a[Len(a)]
popped(a) == SubSeq(a, 1, Len(a) - 1)

\* index < 0 || index >= length: false for a missing index
badIndex(index, length) == index # <<>> /\ (index[1] < 0 \/ index[1] >= length)

\* p.hand[index]; the key "undefined" is an own property of the array
handAt(p, index) == IF index = <<>> THEN p.handProp ELSE slot(p.hand, index[1])

\* p.hand[index] = c
handPut(p, index, c) ==
  IF index = <<>> THEN [p EXCEPT !.handProp = c]
  ELSE [p EXCEPT !.hand = setSlot(p.hand, index[1], c)]

\* array.reduce and array.map skip holes; a slot holding undefined is visited
hasUndefined(a) == \E k \in 1..Len(a) : a[k] = Undefined

RECURSIVE sumScore(_, _)
sumScore(a, k) ==
  IF k > Len(a) THEN 0
  ELSE (IF a[k] = Hole THEN 0 ELSE scoreValue(a[k])) + sumScore(a, k + 1)

\* { ...c, base: baseValue(c), score: scoreValue(c) }
reveal(c) == [r |-> c.r, s |-> c.s, base |-> baseValue(c), score |-> scoreValue(c)]

\* ---------------------------------------------------------------- rooms
\* rooms.get(id) / rooms.has(id) / rooms.set(id, room) / rooms.delete(id): a Map
\* keeps insertion order, and set on an existing key keeps the key's position
hasRoom(reg, id) == \E k \in 1..Len(reg) : reg[k].id = id
roomIndex(reg, id) == CHOOSE k \in 1..Len(reg) : reg[k].id = id
getRoom(reg, id) == reg[roomIndex(reg, id)]
setRoom(reg, id, room) ==
  IF hasRoom(reg, id) THEN [reg EXCEPT ![roomIndex(reg, id)] = room]
  ELSE Append(reg, room)
deleteRoom(reg, id) ==
  LET i == roomIndex(reg, id)
  IN [k \in 1..(Len(reg) - 1) |-> IF k < i THEN reg[k] ELSE reg[k + 1]]

\* room.players.findIndex(p => p.socketId === socketId), 0-based, -1 when absent
findIndex(room, socketId) ==
  IF \E k \in 1..Len(room.players) : room.players[k].socketId = socketId
  THEN (CHOOSE k \in 1..Len(room.players) :
          /\ room.players[k].socketId = socketId
          /\ \A j \in 1..(k - 1) : room.players[j].socketId # socketId) - 1
  ELSE 0 - 1

currentTurnSocket(room) ==
  IF room.turnIndex < Len(room.players)
  THEN room.players[room.turnIndex + 1].socketId
  ELSE Null

\* the object literal of room:create, before the host is pushed
newRoom(id) ==
  [id |-> id, players |-> <<>>, started |-> FALSE, turnIndex |-> 0,
   drawPile |-> <<>>, discardPile |-> <<>>, phase |-> "LOBBY",
   activeDraw |-> <<>>, caboCalledBy |-> Null, lastTurnFor |-> Null,
   skipNextFor |-> Null, pending |-> <<>>, ended |-> <<>>, centerPower |-> <<>>]

newPlayer(socketId, name, fallback) ==
  [socketId |-> socketId, name |-> IF name = "" THEN fallback ELSE name,
   peeksLeft |-> 2, hand |-> <<>>, handProp |-> Undefined]

\* ---------------------------------------------------------------- scoring
playerScore(p) == [name |-> p.name, score |-> sumScore(p.hand, 1)]

\* s.sort((a, b) => a.score - b.score): a stable sort, by insertion
RECURSIVE insertSorted(_, _)
insertSorted(sorted, e) ==
  IF Len(sorted) = 0 THEN <<e>>
  ELSE IF sorted[Len(sorted)].score <= e.score THEN Append(sorted, e)
  ELSE Append(insertSorted(popped(sorted), e), sorted[Len(sorted)])

RECURSIVE sortByScore(_, _)
sortByScore(s, k) ==
  IF k = 0 THEN <<>> ELSE insertSorted(sortByScore(s, k - 1), s[k])

scores(room) ==
  LET s == sortByScore([k \in 1..Len(room.players) |-> playerScore(room.players[k])],
                       Len(room.players))
  IN [scores |-> s, winnerName |-> s[1].name]

\* scoreValue(undefined) throws inside the reduce
scoresThrows(room) ==
  \E k \in 1..Len(room.players) : hasUndefined(room.players[k].hand)

\* ---------------------------------------------------------------- view projection
\* publicHand without the test of the phase
publicHandOpen(room, p) ==
  [k \in 1..Len(p.hand) |-> IF p.hand[k] = Hole THEN <<>> ELSE <<reveal(p.hand[k])>>]

publicHand(room, p) ==
  IF room.phase = "ENDED"
  THEN [k \in 1..Len(p.hand) |-> IF p.hand[k] = Hole THEN <<>> ELSE <<reveal(p.hand[k])>>]
  ELSE [k \in 1..Len(p.hand) |-> <<>>]

publicPlayer(room, p, viewerSocketId) ==
  [socketId |-> p.socketId, name |-> p.name, peeksLeft |-> p.peeksLeft,
   hand |-> publicHand(room, p), handCount |-> Len(p.hand),
   isMe |-> (p.socketId = viewerSocketId)]

\* publicState with the held card embedded in the state
publicStateWithDraw(room, viewerSocketId) ==
  [id |-> room.id, started |-> room.started, phase |-> room.phase,
   players |-> [k \in 1..Len(room.players) |->
                  publicPlayer(room, room.players[k], viewerSocketId)],
   turnSocketId |-> IF room.started THEN currentTurnSocket(room) ELSE Null,
   drawCount |-> Len(room.drawPile),
   discardCount |-> Len(room.discardPile),
   discardTop |-> IF last(room.discardPile) = Undefined THEN <<>>
                  ELSE <<reveal(last(room.discardPile))>>,
   activeDraw |-> room.activeDraw,
   caboCalledBy |-> room.caboCalledBy, lastTurnFor |-> room.lastTurnFor,
   ended |-> room.ended]

publicState(room, viewerSocketId) ==
  LET top == last(room.discardPile)
  IN [id |-> room.id, started |-> room.started, phase |-> room.phase,
      players |-> [k \in 1..Len(room.players) |->
                     publicPlayer(room, room.players[k], viewerSocketId)],
      turnSocketId |-> IF room.started THEN currentTurnSocket(room) ELSE Null,
      drawCount |-> Len(room.drawPile),
      discardCount |-> Len(room.discardPile),
      discardTop |-> IF top = Undefined THEN <<>> ELSE <<reveal(top)>>,
      caboCalledBy |-> room.caboCalledBy, lastTurnFor |-> room.lastTurnFor,
      ended |-> room.ended]

\* in phase ENDED the hands are mapped through baseValue, which throws on undefined
publicStateThrows(room) == room.phase = "ENDED" /\ scoresThrows(room)

Msg(to, ev, data) == [to |-> to, ev |-> ev, data |-> data]

emitRoom(room) ==
  [k \in 1..Len(room.players) |->
     Msg(room.players[k].socketId, "room:update",
         publicState(room, room.players[k].socketId))]

\* ---------------------------------------------------------------- handler results
\* what a handler leaves behind: the room, the acknowledgement, the events it
\* emitted, and the number of cards it popped from the draw pile
Res(room, ok, error, info, msgs, pops) ==
  [room |-> room, ok |-> ok, error |-> error, info |-> info, msgs |-> msgs,
   pops |-> pops]

\* throw new Error(error) before any assignment
Reject(room, error) == Res(room, FALSE, error, "", <<>>, 0)

\* a TypeError thrown after the assignments that produced room
TypeErr == "TypeError"
Thrown(room, msgs, pops) == Res(room, FALSE, TypeErr, "", msgs, pops)

\* emitRoom(room); cb({ ok: true, ... }) at the end of a handler
Done(room, info, msgs, pops) ==
  IF publicStateThrows(room) THEN Thrown(room, msgs, pops)
  ELSE Res(room, TRUE, "", info, msgs \o emitRoom(room), pops)

\* ---------------------------------------------------------------- state machine
\* deck.pop() four times per player, in seat order; the rest is the draw pile
RECURSIVE deal(_, _, _)
deal(players, deck, k) ==
  IF k > Len(players) THEN [players |-> players, deck |-> deck]
  ELSE LET n == Len(deck)
           hand == <<deck[n], deck[n - 1], deck[n - 2], deck[n - 3]>>
       IN deal([players EXCEPT ![k] = [@ EXCEPT !.hand = hand, !.handProp = Undefined,
                                                !.peeksLeft = 2]],
               SubSeq(deck, 1, n - 4), k + 1)

\* startGame without the reset of pending
startGameKeepPending(room, seed) ==
  LET d == deal(room.players, shuffle(makeDeck, seed), 1)
  IN [room EXCEPT !.players = d.players, !.drawPile = d.deck, !.discardPile = <<>>,
                  !.started = TRUE, !.turnIndex = 0, !.phase = "PEEK",
                  !.activeDraw = <<>>, !.caboCalledBy = Null, !.lastTurnFor = Null,
                  !.skipNextFor = Null, !.ended = <<>>, !.centerPower = <<>>]

\* startGame, after its check of the number of players
startGame(room, seed) ==
  LET d == deal(room.players, shuffle(makeDeck, seed), 1)
  IN [room EXCEPT !.players = d.players, !.drawPile = d.deck, !.discardPile = <<>>,
                  !.started = TRUE, !.turnIndex = 0, !.phase = "PEEK",
                  !.activeDraw = <<>>, !.caboCalledBy = Null, !.lastTurnFor = Null,
                  !.skipNextFor = Null, !.pending = <<>>, !.ended = <<>>,
                  !.centerPower = <<>>]

\* a helper's outcome: the room it leaves and whether it threw
Out(room, thrown) == [room |-> room, thrown |-> thrown]

endRound(room) ==
  LET r1 == [room EXCEPT !.phase = "ENDED"]
  IN IF scoresThrows(r1) THEN Out(r1, TRUE)
     ELSE Out([r1 EXCEPT !.ended = <<scores(r1)>>], FALSE)

\* advanceTurn without the end of the round after the last turn
advanceTurnNoEnd(room) ==
  LET n == Len(room.players)
      t1 == (room.turnIndex + 1) % n
      r1 == [room EXCEPT !.turnIndex = t1]
      skip == room.skipNextFor # Null /\ room.skipNextFor = currentTurnSocket(r1)
      r2 == IF skip
            THEN [r1 EXCEPT !.skipNextFor = Null, !.turnIndex = (t1 + 1) % n]
            ELSE r1
  IN Out([r2 EXCEPT !.phase = "TURN_DRAW", !.activeDraw = <<>>, !.pending = <<>>],
         FALSE)

\* advanceTurn that rotates past the skipped player and keeps the mark
advanceTurnKeepSkip(room) ==
  IF room.lastTurnFor # Null /\ currentTurnSocket(room) = room.lastTurnFor
  THEN endRound(room)
  ELSE LET n == Len(room.players)
           t1 == (room.turnIndex + 1) % n
           r1 == [room EXCEPT !.turnIndex = t1]
           skip == room.skipNextFor # Null /\ room.skipNextFor = currentTurnSocket(r1)
           r2 == IF skip THEN [r1 EXCEPT !.turnIndex = (t1 + 1) % n] ELSE r1
       IN Out([r2 EXCEPT !.phase = "TURN_DRAW", !.activeDraw = <<>>, !.pending = <<>>],
              FALSE)

advanceTurn(room) ==
  IF room.lastTurnFor # Null /\ currentTurnSocket(room) = room.lastTurnFor
  THEN endRound(room)
  ELSE LET n == Len(room.players)
           t1 == (room.turnIndex + 1) % n
           r1 == [room EXCEPT !.turnIndex = t1]
           skip == room.skipNextFor # Null /\ room.skipNextFor = currentTurnSocket(r1)
           r2 == IF skip
                 THEN [r1 EXCEPT !.skipNextFor = Null, !.turnIndex = (t1 + 1) % n]
                 ELSE r1
       IN Out([r2 EXCEPT !.phase = "TURN_DRAW", !.activeDraw = <<>>, !.pending = <<>>],
              FALSE)

\* maybeEnterCenterPower of a server without center powers: never opens one
maybeEnterCenterPowerNever(room, ownerSocketId, card) ==
  IF card = Undefined THEN [room |-> room, thrown |-> TRUE, entered |-> FALSE, msgs |-> <<>>]
  ELSE [room |-> room, thrown |-> FALSE, entered |-> FALSE, msgs |-> <<>>]

\* On a power card: the room in CENTER_POWER and the private event to the owner.
\* isPowerCard(undefined) throws.
maybeEnterCenterPower(room, ownerSocketId, card) ==
  IF card = Undefined THEN [room |-> room, thrown |-> TRUE, entered |-> FALSE, msgs |-> <<>>]
  ELSE IF ~isPowerCard(card)
  THEN [room |-> room, thrown |-> FALSE, entered |-> FALSE, msgs |-> <<>>]
  ELSE [room |-> [room EXCEPT !.centerPower =
                                 <<[card |-> card, ownerSocketId |-> ownerSocketId]>>,
                              !.phase = "CENTER_POWER"],
        thrown |-> FALSE, entered |-> TRUE,
        msgs |-> <<Msg(ownerSocketId, "center:powerAvailable", [card |-> reveal(card)])>>]

\* refillDrawPileIfNeeded: its outcome when it does not throw
needsRefill(room) == Len(room.drawPile) = 0
refillThrows(room) == needsRefill(room) /\ Len(room.discardPile) = 0
\* refillDrawPileIfNeeded that leaves the top card on the center pile
refillDrawPileKeepTop(room, seed) ==
  IF ~needsRefill(room) THEN room
  ELSE [room EXCEPT !.drawPile = shuffle(popped(room.discardPile), seed),
                    !.discardPile = <<last(room.discardPile)>>]

refillDrawPileIfNeeded(room, seed) ==
  IF ~needsRefill(room) THEN room
  ELSE [room EXCEPT !.drawPile = shuffle(room.discardPile, seed), !.discardPile = <<>>]

\* advanceTurn(room); emitRoom(room); cb({ ok: true }): the end of a turn
endTurn(room, msgs) ==
  LET a == advanceTurn(room)
  IN IF a.thrown THEN Thrown(a.room, msgs, 0) ELSE Done(a.room, "", msgs, 0)

\* room.discardPile.push(played); room.activeDraw = null; then the center power
\* check, a broadcast, and the end of the turn unless the center power opened
playToCenter(room, socketId, played) ==
  LET r1 == [room EXCEPT !.discardPile = Append(@, played), !.activeDraw = <<>>]
      m == maybeEnterCenterPower(r1, socketId, played)
  IN IF m.thrown THEN Thrown(r1, <<>>, 0)
     ELSE IF publicStateThrows(m.room) THEN Thrown(m.room, m.msgs, 0)
     ELSE IF m.entered THEN Res(m.room, TRUE, "", "", m.msgs \o emitRoom(m.room), 0)
     ELSE endTurn(m.room, m.msgs \o emitRoom(m.room))

\* ---------------------------------------------------------------- handlers
\* Each handler is the body of its try block on the room found by getRoomOrThrow.

me(room) == room.players[room.turnIndex + 1]
opp(room) == room.players[((room.turnIndex + 1) % 2) + 1]
putMe(room, p) == [room EXCEPT !.players[room.turnIndex + 1] = p]
putOpp(room, p) == [room EXCEPT !.players[((room.turnIndex + 1) % 2) + 1] = p]

\* roomJoin without the check of the seats taken
roomJoinAnyNumber(room, socketId, name) ==
  Done([room EXCEPT !.players = Append(@, newPlayer(socketId, name, "Player 2"))],
       "", <<>>, 0)

roomJoin(room, socketId, name) ==
  IF Len(room.players) >= 2 THEN Reject(room, "Room full")
  ELSE Done([room EXCEPT !.players = Append(@, newPlayer(socketId, name, "Player 2"))],
            "", <<>>, 0)

\* gameStart without the check of the host
gameStartAnyone(room, socketId, seed) ==
  IF Len(room.players) # 2 THEN Reject(room, "Need 2 players")
  ELSE Done(startGame(room, seed), "", <<>>, 0)

gameStart(room, socketId, seed) ==
  IF Len(room.players) = 0 \/ room.players[1].socketId # socketId
  THEN Reject(room, "Only host can start")
  ELSE IF Len(room.players) # 2 THEN Reject(room, "Need 2 players")
  ELSE Done(startGame(room, seed), "", <<>>, 0)

\* the checks of game:peek that do not read its argument; "" when they pass
peekGuard(room, socketId) ==
  IF room.phase # "PEEK" THEN "Peek phase ended"
  ELSE IF findIndex(room, socketId) < 0 THEN "Not in room"
  ELSE IF room.players[findIndex(room, socketId) + 1].peeksLeft <= 0 THEN "No peeks left"
  ELSE ""

gamePeek(room, socketId, index) ==
  IF peekGuard(room, socketId) # "" THEN Reject(room, peekGuard(room, socketId))
  ELSE LET pIdx == findIndex(room, socketId) + 1
           p == room.players[pIdx]
       IN IF badIndex(index, Len(p.hand)) THEN Reject(room, "Bad index")
          ELSE LET r1 == [room EXCEPT !.players[pIdx].peeksLeft = @ - 1]
                   card == handAt(p, index)
                   r2 == IF \A k \in 1..Len(r1.players) : r1.players[k].peeksLeft = 0
                         THEN [r1 EXCEPT !.phase = "TURN_DRAW"] ELSE r1
               IN IF card = Undefined THEN Thrown(r1, <<>>, 0)
                  ELSE Done(r2, "",
                            <<Msg(socketId, "peek:result",
                                  [index |-> index, card |-> reveal(card),
                                   peeksLeft |-> p.peeksLeft - 1])>>, 0)

\* takeGuard that lets the turn-holder draw again while a card is held
takeGuardRedraw(room, socketId) ==
  IF room.phase \notin {"TURN_DRAW", "LAST_TURN", "TURN_DECIDE"} THEN "Not in draw phase"
  ELSE IF currentTurnSocket(room) # socketId THEN "Not your turn"
  ELSE IF room.pending # <<>> THEN "Resolve pending action first"
  ELSE ""

\* takeGuard without ensureTurn
takeGuardAnyone(room, socketId) ==
  IF room.phase \notin {"TURN_DRAW", "LAST_TURN"} THEN "Not in draw phase"
  ELSE IF room.activeDraw # <<>> THEN "Already drew a card"
  ELSE IF room.pending # <<>> THEN "Resolve pending action first"
  ELSE ""

\* the checks of turn:take that do not read its argument; "" when they pass
takeGuard(room, socketId) ==
  IF room.phase \notin {"TURN_DRAW", "LAST_TURN"} THEN "Not in draw phase"
  ELSE IF currentTurnSocket(room) # socketId THEN "Not your turn"
  ELSE IF room.activeDraw # <<>> THEN "Already drew a card"
  ELSE IF room.pending # <<>> THEN "Resolve pending action first"
  ELSE ""

\* turnTake with the center pile as a second source, as in src/server.js
turnTakeAnySource(room, socketId, source, seed) ==
  IF takeGuard(room, socketId) # "" THEN Reject(room, takeGuard(room, socketId))
  ELSE IF source = <<"discard">> /\ Len(room.discardPile) > 0
  THEN Done([room EXCEPT !.discardPile = popped(@),
                         !.activeDraw = <<[card |-> last(room.discardPile)]>>,
                         !.phase = "TURN_DECIDE"], "", <<>>, 0)
  ELSE IF refillThrows(room) THEN Reject(room, "No cards left to draw")
  ELSE LET r1 == refillDrawPileIfNeeded(room, seed)
       IN Done([r1 EXCEPT !.drawPile = popped(@),
                          !.activeDraw = <<[card |-> last(r1.drawPile)]>>,
                          !.phase = "TURN_DECIDE"], "",
               <<Msg(socketId, "turn:drawResult",
                     [card |-> reveal(last(r1.drawPile)),
                      power |-> isPowerCard(last(r1.drawPile))])>>, 1)

turnTake(room, socketId, source, seed) ==
  IF takeGuard(room, socketId) # "" THEN Reject(room, takeGuard(room, socketId))
  ELSE IF source # <<>> /\ source # <<"draw">> THEN Reject(room, "Rule: draw pile only.")
  ELSE IF refillThrows(room) THEN Reject(room, "No cards left to draw")
  ELSE LET r1 == refillDrawPileIfNeeded(room, seed)
           card == last(r1.drawPile)
           r2 == [r1 EXCEPT !.drawPile = popped(@), !.activeDraw = <<[card |-> card]>>,
                            !.phase = "TURN_DECIDE"]
       IN IF card = Undefined THEN Thrown(r2, <<>>, 1)
          ELSE Done(r2, "",
                    <<Msg(socketId, "turn:drawResult",
                          [card |-> reveal(card), power |-> isPowerCard(card)])>>, 1)

\* the checks turn:swap and turn:discardDrawn start with; "" when they pass
decideGuard(room, socketId) ==
  IF room.phase # "TURN_DECIDE" THEN "Not in decide phase"
  ELSE IF currentTurnSocket(room) # socketId THEN "Not your turn"
  ELSE IF room.activeDraw = <<>> THEN "No drawn card"
  ELSE IF room.pending # <<>> THEN "Resolve pending action first"
  ELSE ""

turnSwap(room, socketId, handIndex) ==
  IF decideGuard(room, socketId) # "" THEN Reject(room, decideGuard(room, socketId))
  ELSE IF badIndex(handIndex, Len(me(room).hand)) THEN Reject(room, "Bad index")
  ELSE LET old == handAt(me(room), handIndex)
           r1 == putMe(room, handPut(me(room), handIndex, room.activeDraw[1].card))
       IN playToCenter(r1, socketId, old)

\* turnDiscardDrawn that puts the card down and leaves the turn where it is
turnDiscardDrawnNoAdvance(room, socketId) ==
  IF decideGuard(room, socketId) # "" THEN Reject(room, decideGuard(room, socketId))
  ELSE LET r1 == [room EXCEPT !.discardPile = Append(@, room.activeDraw[1].card),
                              !.activeDraw = <<>>]
       IN Done(r1, "", emitRoom(r1), 0)

turnDiscardDrawn(room, socketId) ==
  IF decideGuard(room, socketId) # "" THEN Reject(room, decideGuard(room, socketId))
  ELSE playToCenter(room, socketId, room.activeDraw[1].card)

\* The listener is registered twice (lines 473 and 487); after the first has run
\* the phase is no longer CENTER_POWER, so the second throws without an effect
\* and its acknowledgement is dropped.
centerPowerSkip(room, socketId) ==
  IF room.phase # "CENTER_POWER" THEN Reject(room, "No center power to skip")
  ELSE IF room.centerPower = <<>> \/ room.centerPower[1].ownerSocketId # socketId
  THEN Reject(room, "Not your center power")
  ELSE endTurn([room EXCEPT !.centerPower = <<>>], <<>>)

\* turnCabo with the limit of src/unnamed/part_000: a total of 5 or less
turnCaboFive(room, socketId) ==
  IF room.phase # "TURN_DRAW" THEN Reject(room, "Call Cabo at start of your turn")
  ELSE IF currentTurnSocket(room) # socketId THEN Reject(room, "Not your turn")
  ELSE LET p == room.players[findIndex(room, socketId) + 1]
           r1 == [room EXCEPT !.caboCalledBy = socketId]
           others == {k \in 1..Len(room.players) : room.players[k].socketId # socketId}
       IN IF hasUndefined(p.hand) THEN Thrown(room, <<>>, 0)
          ELSE IF sumScore(p.hand, 1) > 5
          THEN Reject(room, "Cabo not allowed (total must be less than 10).")
          ELSE IF others = {} THEN Thrown(r1, <<>>, 0)
          ELSE LET o == CHOOSE k \in others : \A j \in others : k <= j
               IN Done([r1 EXCEPT !.lastTurnFor = room.players[o].socketId,
                                  !.turnIndex = findIndex(room, room.players[o].socketId),
                                  !.phase = "LAST_TURN", !.activeDraw = <<>>,
                                  !.pending = <<>>], "", <<>>, 0)

\* turnCabo that may also be called while a drawn card is held, as in src/server.js
turnCaboHolding(room, socketId) ==
  IF room.phase \notin {"TURN_DRAW", "TURN_DECIDE"} THEN Reject(room, "Call Cabo at start of your turn")
  ELSE IF currentTurnSocket(room) # socketId THEN Reject(room, "Not your turn")
  ELSE LET p == room.players[findIndex(room, socketId) + 1]
           r1 == [room EXCEPT !.caboCalledBy = socketId]
           others == {k \in 1..Len(room.players) : room.players[k].socketId # socketId}
       IN IF hasUndefined(p.hand) THEN Thrown(room, <<>>, 0)
          ELSE IF sumScore(p.hand, 1) >= 10
          THEN Reject(room, "Cabo not allowed (total must be less than 10).")
          ELSE IF others = {} THEN Thrown(r1, <<>>, 0)
          ELSE LET o == CHOOSE k \in others : \A j \in others : k <= j
               IN Done([r1 EXCEPT !.lastTurnFor = room.players[o].socketId,
                                  !.turnIndex = findIndex(room, room.players[o].socketId),
                                  !.phase = "LAST_TURN", !.activeDraw = <<>>,
                                  !.pending = <<>>], "", <<>>, 0)

\* turnCabo that leaves the turn with the caller
turnCaboNoJump(room, socketId) ==
  IF room.phase # "TURN_DRAW" THEN Reject(room, "Call Cabo at start of your turn")
  ELSE IF currentTurnSocket(room) # socketId THEN Reject(room, "Not your turn")
  ELSE LET p == room.players[findIndex(room, socketId) + 1]
           r1 == [room EXCEPT !.caboCalledBy = socketId]
           others == {k \in 1..Len(room.players) : room.players[k].socketId # socketId}
       IN IF hasUndefined(p.hand) THEN Thrown(room, <<>>, 0)
          ELSE IF sumScore(p.hand, 1) >= 10
          THEN Reject(room, "Cabo not allowed (total must be less than 10).")
          ELSE IF others = {} THEN Thrown(r1, <<>>, 0)
          ELSE LET o == CHOOSE k \in others : \A j \in others : k <= j
               IN Done([r1 EXCEPT !.lastTurnFor = room.players[o].socketId,
                                  !.phase = "LAST_TURN", !.activeDraw = <<>>,
                                  !.pending = <<>>], "", <<>>, 0)

\* computeHandSum reads the first seat held by socketId
\* turnCabo that gives the last turn to the caller
turnCaboOwnLastTurn(room, socketId) ==
  IF room.phase # "TURN_DRAW" THEN Reject(room, "Call Cabo at start of your turn")
  ELSE IF currentTurnSocket(room) # socketId THEN Reject(room, "Not your turn")
  ELSE LET p == room.players[findIndex(room, socketId) + 1]
       IN IF hasUndefined(p.hand) THEN Thrown(room, <<>>, 0)
          ELSE IF sumScore(p.hand, 1) >= 10
          THEN Reject(room, "Cabo not allowed (total must be less than 10).")
          ELSE Done([room EXCEPT !.caboCalledBy = socketId, !.lastTurnFor = socketId,
                                 !.phase = "LAST_TURN", !.activeDraw = <<>>,
                                 !.pending = <<>>], "", <<>>, 0)

turnCabo(room, socketId) ==
  IF room.phase # "TURN_DRAW" THEN Reject(room, "Call Cabo at start of your turn")
  ELSE IF currentTurnSocket(room) # socketId THEN Reject(room, "Not your turn")
  ELSE LET p == room.players[findIndex(room, socketId) + 1]
           r1 == [room EXCEPT !.caboCalledBy = socketId]
           others == {k \in 1..Len(room.players) : room.players[k].socketId # socketId}
       IN IF hasUndefined(p.hand) THEN Thrown(room, <<>>, 0)
          ELSE IF sumScore(p.hand, 1) >= 10
          THEN Reject(room, "Cabo not allowed (total must be less than 10).")
          ELSE IF others = {} THEN Thrown(r1, <<>>, 0)
          ELSE LET o == CHOOSE k \in others : \A j \in others : k <= j
               IN Done([r1 EXCEPT !.lastTurnFor = room.players[o].socketId,
                                  !.turnIndex = findIndex(room, room.players[o].socketId),
                                  !.phase = "LAST_TURN", !.activeDraw = <<>>,
                                  !.pending = <<>>], "", <<>>, 0)

\* burnPenalty that leaves the penalty card on the draw pile as well
burnPenaltyKeepPile(room, burnerIdx, seed, info, msgs) ==
  LET r1 == refillDrawPileIfNeeded(room, seed)
      penalty == last(r1.drawPile)
  IN Done([r1 EXCEPT !.players[burnerIdx].hand = Append(@, penalty)], info, msgs, 1)

\* refillDrawPileIfNeeded(room); penalty = room.drawPile.pop(); burner.hand.push(penalty)
\* (the center pile is not empty here, so the refill does not throw)
burnPenalty(room, burnerIdx, seed, info, msgs) ==
  LET r1 == refillDrawPileIfNeeded(room, seed)
      penalty == last(r1.drawPile)
  IN Done([r1 EXCEPT !.drawPile = popped(@),
                     !.players[burnerIdx].hand = Append(@, penalty)], info, msgs, 1)

\* the checks of burn:attempt that do not read its arguments; "" when they pass
\* burnGuard that still takes burns after the round has ended
burnGuardEnded(room, socketId) ==
  IF room.phase \in {"LOBBY", "PEEK"} THEN "Burn not allowed right now."
  ELSE IF last(room.discardPile) = Undefined THEN "Nothing to burn on (center pile empty)."
  ELSE IF findIndex(room, socketId) < 0 THEN "Not in room"
  ELSE ""

burnGuard(room, socketId) ==
  IF room.phase \in {"LOBBY", "PEEK", "ENDED"} THEN "Burn not allowed right now."
  ELSE IF last(room.discardPile) = Undefined THEN "Nothing to burn on (center pile empty)."
  ELSE IF findIndex(room, socketId) < 0 THEN "Not in room"
  ELSE ""

burnAttempt(room, socketId, target, index, giveIndex, seed) ==
  IF burnGuard(room, socketId) # "" THEN Reject(room, burnGuard(room, socketId))
  ELSE LET top == last(room.discardPile)
           burnerIdx == findIndex(room, socketId) + 1
           victimIdx == ((findIndex(room, socketId) + 1) % 2) + 1
           burner == room.players[burnerIdx]
           victim == room.players[victimIdx]
       IN IF target = "self"
          THEN IF badIndex(index, Len(burner.hand)) THEN Reject(room, "Bad index.")
               ELSE LET chosen == handAt(burner, index)
                    IN IF sameRank(chosen, top)
                       THEN Done([room EXCEPT
                                    !.players[burnerIdx].hand = spliceOut(@, spliceStart(index)),
                                    !.discardPile = Append(@, chosen)],
                                 "BURN_OK", <<>>, 0)
                       ELSE burnPenalty(room, burnerIdx, seed, "BURN_WRONG_SELF", <<>>)
          ELSE IF target = "opp"
          THEN IF badIndex(index, Len(victim.hand)) THEN Reject(room, "Bad opponent index.")
               ELSE IF badIndex(giveIndex, Len(burner.hand))
               THEN Reject(room, "Choose a card to give.")
               ELSE LET chosenVictimCard == handAt(victim, index)
                        r1 == [room EXCEPT
                                 !.players[victimIdx].hand = spliceOut(@, spliceStart(index)),
                                 !.discardPile = Append(@, chosenVictimCard)]
                        gift == slot(r1.players[burnerIdx].hand, spliceStart(giveIndex))
                        r2 == [r1 EXCEPT
                                 !.players[burnerIdx].hand = spliceOut(@, spliceStart(giveIndex))]
                        r3 == [r2 EXCEPT !.players[victimIdx].hand = Append(@, gift)]
                    IN IF sameRank(chosenVictimCard, top)
                       THEN Done(r3, "BURN_OK_STEAL", <<>>, 0)
                       ELSE IF chosenVictimCard = Undefined THEN Thrown(room, <<>>, 0)
                       ELSE burnPenalty(room, burnerIdx, seed, "BURN_WRONG_STEAL",
                                        <<Msg(socketId, "burn:revealWrong",
                                              [index |-> index,
                                               card |-> reveal(chosenVictimCard)])>>)
          ELSE Reject(room, "Bad target.")

\* the checks every power:* handler starts with; "" when they pass
\* powerGuard without the check of the rank
powerGuardAnyRank(room, socketId, rankSet, error) ==
  IF currentTurnSocket(room) # socketId THEN "Not your turn"
  ELSE IF room.phase # "TURN_DECIDE" THEN "Not in decide phase"
  ELSE IF room.activeDraw = <<>> THEN "No drawn card"
  ELSE IF room.activeDraw[1].card = Undefined THEN TypeErr
  ELSE ""

powerGuard(room, socketId, rankSet, error) ==
  IF currentTurnSocket(room) # socketId THEN "Not your turn"
  ELSE IF room.phase # "TURN_DECIDE" THEN "Not in decide phase"
  ELSE IF room.activeDraw = <<>> THEN "No drawn card"
  ELSE IF room.activeDraw[1].card = Undefined THEN TypeErr
  ELSE IF room.activeDraw[1].card.r \notin rankSet THEN error
  ELSE ""

\* room.discardPile.push(room.activeDraw.card); room.activeDraw = null; advanceTurn; emitRoom
usePower(room, msgs) ==
  endTurn([room EXCEPT !.discardPile = Append(@, room.activeDraw[1].card),
                       !.activeDraw = <<>>], msgs)

\* swapHands that copies the opponent's card and gives nothing back
swapHandsOneWay(room, myIndex, oppIndex) ==
  putMe(room, handPut(me(room), myIndex, handAt(opp(room), oppIndex)))

\* temp = me.hand[myIndex]; me.hand[myIndex] = opp.hand[oppIndex]; opp.hand[oppIndex] = temp
swapHands(room, myIndex, oppIndex) ==
  LET temp == handAt(me(room), myIndex)
      r1 == putMe(room, handPut(me(room), myIndex, handAt(opp(room), oppIndex)))
  IN putOpp(r1, handPut(opp(r1), oppIndex, temp))

powerPeekOwn(room, socketId, handIndex) ==
  LET g == powerGuard(room, socketId, {"7", "8"}, "Not 7/8")
  IN IF g # "" THEN Reject(room, g)
     ELSE IF badIndex(handIndex, Len(me(room).hand)) THEN Reject(room, "Bad index")
     ELSE IF handAt(me(room), handIndex) = Undefined THEN Thrown(room, <<>>, 0)
     ELSE usePower(room, <<Msg(socketId, "power:reveal",
                               [kind |-> "own", index |-> handIndex,
                                card |-> reveal(handAt(me(room), handIndex))])>>)

powerPeekOpp(room, socketId, oppIndex) ==
  LET g == powerGuard(room, socketId, {"9", "10"}, "Not 9/10")
  IN IF g # "" THEN Reject(room, g)
     ELSE IF badIndex(oppIndex, Len(opp(room).hand)) THEN Reject(room, "Bad index")
     ELSE IF handAt(opp(room), oppIndex) = Undefined THEN Thrown(room, <<>>, 0)
     ELSE usePower(room, <<Msg(socketId, "power:reveal",
                               [kind |-> "opp", index |-> oppIndex,
                                card |-> reveal(handAt(opp(room), oppIndex))])>>)

powerJackSkip(room, socketId) ==
  LET g == powerGuard(room, socketId, {"J"}, "Not a Jack")
  IN IF g # "" THEN Reject(room, g)
     ELSE usePower([room EXCEPT !.skipNextFor = opp(room).socketId], <<>>)

powerQueenUnseenSwap(room, socketId, myIndex, oppIndex) ==
  LET g == powerGuard(room, socketId, {"Q"}, "Not a Queen")
  IN IF g # "" THEN Reject(room, g)
     ELSE IF badIndex(myIndex, Len(me(room).hand)) THEN Reject(room, "Bad my index")
     ELSE IF badIndex(oppIndex, Len(opp(room).hand)) THEN Reject(room, "Bad opp index")
     ELSE usePower(swapHands(room, myIndex, oppIndex), <<>>)

\* the checks of power:kingPreview that do not read its arguments
kingGuard(room, socketId) ==
  IF currentTurnSocket(room) # socketId THEN "Not your turn"
  ELSE IF room.phase # "TURN_DECIDE" THEN "Not in decide phase"
  ELSE IF room.activeDraw = <<>> THEN "No drawn card"
  ELSE IF room.pending # <<>> THEN "Already pending"
  ELSE IF room.activeDraw[1].card = Undefined THEN TypeErr
  ELSE IF room.activeDraw[1].card.r # "K" THEN "Not a King"
  ELSE ""

powerKingPreview(room, socketId, myIndex, oppIndex) ==
  IF kingGuard(room, socketId) # "" THEN Reject(room, kingGuard(room, socketId))
  ELSE IF badIndex(myIndex, Len(me(room).hand)) THEN Reject(room, "Bad my index")
  ELSE IF badIndex(oppIndex, Len(opp(room).hand)) THEN Reject(room, "Bad opp index")
  ELSE LET r1 == [room EXCEPT !.pending =
                     <<[type |-> "KING_CONFIRM", playerSocketId |-> socketId,
                        myIndex |-> myIndex, oppIndex |-> oppIndex]>>]
           myCard == handAt(me(room), myIndex)
           oppCard == handAt(opp(room), oppIndex)
       IN IF myCard = Undefined \/ oppCard = Undefined THEN Thrown(r1, <<>>, 0)
          ELSE Res(r1, TRUE, "", "",
                   <<Msg(socketId, "king:preview",
                         [myIndex |-> myIndex, oppIndex |-> oppIndex,
                          myCard |-> reveal(myCard), oppCard |-> reveal(oppCard)])>>, 0)

\* powerKingConfirm that swaps whatever the answer is
powerKingConfirmAlways(room, socketId, confirm) ==
  IF currentTurnSocket(room) # socketId THEN Reject(room, "Not your turn")
  ELSE IF room.phase # "TURN_DECIDE" THEN Reject(room, "Not in decide phase")
  ELSE IF room.activeDraw = <<>> THEN Reject(room, "No drawn card")
  ELSE IF room.pending = <<>> \/ room.pending[1].type # "KING_CONFIRM"
  THEN Reject(room, "No pending king action")
  ELSE IF room.pending[1].playerSocketId # socketId
  THEN Reject(room, "Not your pending action")
  ELSE LET r1 == swapHands(room, room.pending[1].myIndex, room.pending[1].oppIndex)
       IN usePower([r1 EXCEPT !.pending = <<>>], <<>>)

powerKingConfirm(room, socketId, confirm) ==
  IF currentTurnSocket(room) # socketId THEN Reject(room, "Not your turn")
  ELSE IF room.phase # "TURN_DECIDE" THEN Reject(room, "Not in decide phase")
  ELSE IF room.activeDraw = <<>> THEN Reject(room, "No drawn card")
  ELSE IF room.pending = <<>> \/ room.pending[1].type # "KING_CONFIRM"
  THEN Reject(room, "No pending king action")
  ELSE IF room.pending[1].playerSocketId # socketId
  THEN Reject(room, "Not your pending action")
  ELSE LET r1 == IF confirm
                 THEN swapHands(room, room.pending[1].myIndex, room.pending[1].oppIndex)
                 ELSE room
       IN usePower([r1 EXCEPT !.pending = <<>>], <<>>)

\* ensureTurn, then requireCenterPower and the rank check of a centerPower:* handler
\* (each of these listeners is registered twice, lines 797-894 and 904-1001; the
\* second run finds the phase changed and throws without an effect)
centerGuard(room, socketId, rankSet, error) ==
  IF currentTurnSocket(room) # socketId THEN "Not your turn"
  ELSE IF room.phase # "CENTER_POWER" THEN "Not in center power phase"
  ELSE IF room.centerPower = <<>> THEN "No center power"
  ELSE IF room.centerPower[1].ownerSocketId # socketId THEN "Not your center power"
  ELSE IF room.centerPower[1].card.r \notin rankSet THEN error
  ELSE ""

centerPowerPeekOwn(room, socketId, handIndex) ==
  LET g == centerGuard(room, socketId, {"7", "8"}, "Not 7/8")
  IN IF g # "" THEN Reject(room, g)
     ELSE IF badIndex(handIndex, Len(me(room).hand)) THEN Reject(room, "Bad index")
     ELSE IF handAt(me(room), handIndex) = Undefined THEN Thrown(room, <<>>, 0)
     ELSE endTurn([room EXCEPT !.centerPower = <<>>],
                  <<Msg(socketId, "power:reveal",
                        [kind |-> "own", index |-> handIndex,
                         card |-> reveal(handAt(me(room), handIndex))])>>)

centerPowerPeekOpp(room, socketId, oppIndex) ==
  LET g == centerGuard(room, socketId, {"9", "10"}, "Not 9/10")
  IN IF g # "" THEN Reject(room, g)
     ELSE IF badIndex(oppIndex, Len(opp(room).hand)) THEN Reject(room, "Bad index")
     ELSE IF handAt(opp(room), oppIndex) = Undefined THEN Thrown(room, <<>>, 0)
     ELSE endTurn([room EXCEPT !.centerPower = <<>>],
                  <<Msg(socketId, "power:reveal",
                        [kind |-> "opp", index |-> oppIndex,
                         card |-> reveal(handAt(opp(room), oppIndex))])>>)

centerPowerJackSkip(room, socketId) ==
  LET g == centerGuard(room, socketId, {"J"}, "Not Jack")
  IN IF g # "" THEN Reject(room, g)
     ELSE endTurn([room EXCEPT !.skipNextFor = opp(room).socketId,
                               !.centerPower = <<>>], <<>>)

centerPowerQueenUnseenSwap(room, socketId, myIndex, oppIndex) ==
  LET g == centerGuard(room, socketId, {"Q"}, "Not Queen")
  IN IF g # "" THEN Reject(room, g)
     ELSE IF badIndex(myIndex, Len(me(room).hand)) THEN Reject(room, "Bad my index")
     ELSE IF badIndex(oppIndex, Len(opp(room).hand)) THEN Reject(room, "Bad opp index")
     ELSE endTurn([swapHands(room, myIndex, oppIndex) EXCEPT !.centerPower = <<>>], <<>>)

\* the reset of a room that keeps a player after a disconnect
backToLobby(room) ==
  [room EXCEPT !.started = FALSE, !.phase = "LOBBY", !.drawPile = <<>>,
               !.discardPile = <<>>, !.activeDraw = <<>>, !.caboCalledBy = Null,
               !.lastTurnFor = Null, !.skipNextFor = Null, !.pending = <<>>,
               !.ended = <<>>]

\* ---------------------------------------------------------------- actions
\* One action per socket event. A socket id names one connection: once it has
\* disconnected it sends nothing more.

Ack(ok, error, info) == <<[ok |-> ok, error |-> error, info |-> info]>>

\* getRoomOrThrow failed: cb({ ok: false, error: "Room not found" })
RoomNotFound ==
  /\ ack' = Ack(FALSE, "Room not found", "")
  /\ outbox' = <<>>
  /\ UNCHANGED <<rooms, draws, missing, connected>>

\* the handler ran on the room registered under id and left res
Apply(id, res) ==
  /\ draws + res.pops <= MaxDraws
  /\ rooms' = setRoom(rooms, id, res.room)
  /\ ack' = Ack(res.ok, res.error, res.info)
  /\ outbox' = res.msgs
  /\ draws' = draws + res.pops
  /\ UNCHANGED <<missing, connected>>

\* the same for a request that carries index arguments: those sent without
\* an index are counted
ApplyIdx(id, indices, res) ==
  LET n == Cardinality({k \in 1..Len(indices) : indices[k] = <<>>})
  IN /\ draws + res.pops <= MaxDraws
     /\ missing + n <= MaxMissing
     /\ rooms' = setRoom(rooms, id, res.room)
     /\ ack' = Ack(res.ok, res.error, res.info)
     /\ outbox' = res.msgs
     /\ draws' = draws + res.pops
     /\ missing' = missing + n
     /\ UNCHANGED connected

\* the same for game:start: a new round has its own budgets
ApplyStart(id, res) ==
  /\ rooms' = setRoom(rooms, id, res.room)
  /\ ack' = Ack(res.ok, res.error, res.info)
  /\ outbox' = res.msgs
  /\ draws' = IF res.ok THEN 0 ELSE draws
  /\ missing' = IF res.ok THEN 0 ELSE missing
  /\ UNCHANGED connected

\* the seeds that matter to a handler that may reshuffle the center pile
RefillSeeds(id) ==
  IF hasRoom(rooms, id) /\ needsRefill(getRoom(rooms, id)) THEN Seeds ELSE {0}

RoomCreate(sock, id, name) ==
  /\ sock \in connected
  /\ LET room == [newRoom(id) EXCEPT !.players = <<newPlayer(sock, name, "Host")>>]
     IN /\ rooms' = setRoom(rooms, id, room)
        /\ ack' = Ack(TRUE, "", id)
        /\ outbox' = emitRoom(room)
  /\ UNCHANGED <<draws, missing, connected>>

RoomJoin(sock, id, name) ==
  /\ sock \in connected
  /\ IF hasRoom(rooms, id) THEN Apply(id, roomJoin(getRoom(rooms, id), sock, name))
     ELSE RoomNotFound

GameStart(sock, id, seed) ==
  /\ sock \in connected
  /\ IF hasRoom(rooms, id)
     THEN ApplyStart(id, gameStart(getRoom(rooms, id), sock, seed))
     ELSE RoomNotFound

GamePeek(sock, id, index) ==
  /\ sock \in connected
  /\ IF hasRoom(rooms, id) THEN ApplyIdx(id, <<index>>, gamePeek(getRoom(rooms, id), sock, index))
     ELSE RoomNotFound

TurnTake(sock, id, source, seed) ==
  /\ sock \in connected
  /\ IF hasRoom(rooms, id) THEN Apply(id, turnTake(getRoom(rooms, id), sock, source, seed))
     ELSE RoomNotFound

TurnSwap(sock, id, handIndex) ==
  /\ sock \in connected
  /\ IF hasRoom(rooms, id) THEN ApplyIdx(id, <<handIndex>>, turnSwap(getRoom(rooms, id), sock, handIndex))
     ELSE RoomNotFound

TurnDiscardDrawn(sock, id) ==
  /\ sock \in connected
  /\ IF hasRoom(rooms, id) THEN Apply(id, turnDiscardDrawn(getRoom(rooms, id), sock))
     ELSE RoomNotFound

CenterPowerSkip(sock, id) ==
  /\ sock \in connected
  /\ IF hasRoom(rooms, id) THEN Apply(id, centerPowerSkip(getRoom(rooms, id), sock))
     ELSE RoomNotFound

TurnCabo(sock, id) ==
  /\ sock \in connected
  /\ IF hasRoom(rooms, id) THEN Apply(id, turnCabo(getRoom(rooms, id), sock))
     ELSE RoomNotFound

BurnAttempt(sock, id, target, index, giveIndex, seed) ==
  /\ sock \in connected
  /\ IF hasRoom(rooms, id)
     THEN ApplyIdx(id, IF target = "self" THEN <<index>> ELSE <<index, giveIndex>>,
                   burnAttempt(getRoom(rooms, id), sock, target, index, giveIndex, seed))
     ELSE RoomNotFound

PowerPeekOwn(sock, id, handIndex) ==
  /\ sock \in connected
  /\ IF hasRoom(rooms, id) THEN ApplyIdx(id, <<handIndex>>, powerPeekOwn(getRoom(rooms, id), sock, handIndex))
     ELSE RoomNotFound

PowerPeekOpp(sock, id, oppIndex) ==
  /\ sock \in connected
  /\ IF hasRoom(rooms, id) THEN ApplyIdx(id, <<oppIndex>>, powerPeekOpp(getRoom(rooms, id), sock, oppIndex))
     ELSE RoomNotFound

PowerJackSkip(sock, id) ==
  /\ sock \in connected
  /\ IF hasRoom(rooms, id) THEN Apply(id, powerJackSkip(getRoom(rooms, id), sock))
     ELSE RoomNotFound

PowerQueenUnseenSwap(sock, id, myIndex, oppIndex) ==
  /\ sock \in connected
  /\ IF hasRoom(rooms, id)
     THEN ApplyIdx(id, <<myIndex, oppIndex>>,
                   powerQueenUnseenSwap(getRoom(rooms, id), sock, myIndex, oppIndex))
     ELSE RoomNotFound

PowerKingPreview(sock, id, myIndex, oppIndex) ==
  /\ sock \in connected
  /\ IF hasRoom(rooms, id)
     THEN ApplyIdx(id, <<myIndex, oppIndex>>,
                   powerKingPreview(getRoom(rooms, id), sock, myIndex, oppIndex))
     ELSE RoomNotFound

PowerKingConfirm(sock, id, confirm) ==
  /\ sock \in connected
  /\ IF hasRoom(rooms, id) THEN Apply(id, powerKingConfirm(getRoom(rooms, id), sock, confirm))
     ELSE RoomNotFound

CenterPowerPeekOwn(sock, id, handIndex) ==
  /\ sock \in connected
  /\ IF hasRoom(rooms, id)
     THEN ApplyIdx(id, <<handIndex>>, centerPowerPeekOwn(getRoom(rooms, id), sock, handIndex))
     ELSE RoomNotFound

CenterPowerPeekOpp(sock, id, oppIndex) ==
  /\ sock \in connected
  /\ IF hasRoom(rooms, id)
     THEN ApplyIdx(id, <<oppIndex>>, centerPowerPeekOpp(getRoom(rooms, id), sock, oppIndex))
     ELSE RoomNotFound

CenterPowerJackSkip(sock, id) ==
  /\ sock \in connected
  /\ IF hasRoom(rooms, id) THEN Apply(id, centerPowerJackSkip(getRoom(rooms, id), sock))
     ELSE RoomNotFound

CenterPowerQueenUnseenSwap(sock, id, myIndex, oppIndex) ==
  /\ sock \in connected
  /\ IF hasRoom(rooms, id)
     THEN ApplyIdx(id, <<myIndex, oppIndex>>,
                   centerPowerQueenUnseenSwap(getRoom(rooms, id), sock, myIndex, oppIndex))
     ELSE RoomNotFound

\* the first room, in the Map's order, that seats the socket loses that seat
\* (the first one the socket holds); the loop then breaks
Disconnect(sock) ==
  /\ sock \in connected
  /\ connected' = connected \ {sock}
  /\ ack' = <<>>
  /\ UNCHANGED <<draws, missing>>
  /\ LET seated == {k \in 1..Len(rooms) : findIndex(rooms[k], sock) >= 0}
     IN IF seated = {} THEN rooms' = rooms /\ outbox' = <<>>
        ELSE LET k == CHOOSE i \in seated : \A j \in seated : i <= j
                 room == [rooms[k] EXCEPT
                            !.players = spliceOut(@, findIndex(rooms[k], sock))]
             IN IF Len(room.players) = 0
                THEN rooms' = deleteRoom(rooms, room.id) /\ outbox' = <<>>
                ELSE /\ rooms' = [rooms EXCEPT ![k] = backToLobby(room)]
                     /\ outbox' = emitRoom(backToLobby(room))

Init ==
  /\ rooms = <<>>
  /\ ack = <<>>
  /\ outbox = <<>>
  /\ draws = 0
  /\ missing = 0
  /\ connected = Sockets

\* The argument values worth sending: when the checks made before a handler
\* reads its arguments reject the request, every argument value has the same
\* outcome and one stands for all.
Passes(id, sock, guard(_, _)) == hasRoom(rooms, id) /\ guard(getRoom(rooms, id), sock) = ""
IndexArgsIf(cond) == IF cond THEN IndexArgs ELSE {<<0>>}
SourceArgsIf(cond) == IF cond THEN SourceArgs ELSE {<<>>}
ownGuard(room, sock) == powerGuard(room, sock, {"7", "8"}, "Not 7/8")
oppGuard(room, sock) == powerGuard(room, sock, {"9", "10"}, "Not 9/10")
queenGuard(room, sock) == powerGuard(room, sock, {"Q"}, "Not a Queen")
centerOwnGuard(room, sock) == centerGuard(room, sock, {"7", "8"}, "Not 7/8")
centerOppGuard(room, sock) == centerGuard(room, sock, {"9", "10"}, "Not 9/10")
centerQueenGuard(room, sock) == centerGuard(room, sock, {"Q"}, "Not Queen")

Next ==
  \/ \E sock \in Sockets, id \in RoomIds : RoomCreate(sock, id, NameOf(sock))
  \/ \E sock \in Sockets, id \in RoomIds : RoomJoin(sock, id, NameOf(sock))
  \/ \E sock \in Sockets, id \in RoomIds, seed \in Seeds : GameStart(sock, id, seed)
  \/ \E sock \in Sockets, id \in RoomIds :
       \E index \in IndexArgsIf(Passes(id, sock, peekGuard)) : GamePeek(sock, id, index)
  \/ \E sock \in Sockets, id \in RoomIds :
       \E source \in SourceArgsIf(Passes(id, sock, takeGuard)), seed \in RefillSeeds(id) :
         TurnTake(sock, id, source, seed)
  \/ \E sock \in Sockets, id \in RoomIds :
       \E handIndex \in IndexArgsIf(Passes(id, sock, decideGuard)) : TurnSwap(sock, id, handIndex)
  \/ \E sock \in Sockets, id \in RoomIds : TurnDiscardDrawn(sock, id)
  \/ \E sock \in Sockets, id \in RoomIds : CenterPowerSkip(sock, id)
  \/ \E sock \in Sockets, id \in RoomIds : TurnCabo(sock, id)
  \/ \E sock \in Sockets, id \in RoomIds :
       \E index \in IndexArgsIf(Passes(id, sock, burnGuard)), seed \in RefillSeeds(id) :
         BurnAttempt(sock, id, "self", index, <<0>>, seed)
  \/ \E sock \in Sockets, id \in RoomIds :
       \E index \in IndexArgsIf(Passes(id, sock, burnGuard)),
          giveIndex \in IndexArgsIf(Passes(id, sock, burnGuard)), seed \in RefillSeeds(id) :
         BurnAttempt(sock, id, "opp", index, giveIndex, seed)
  \/ \E sock \in Sockets, id \in RoomIds : BurnAttempt(sock, id, "other", <<0>>, <<0>>, 0)
  \/ \E sock \in Sockets, id \in RoomIds :
       \E handIndex \in IndexArgsIf(Passes(id, sock, ownGuard)) : PowerPeekOwn(sock, id, handIndex)
  \/ \E sock \in Sockets, id \in RoomIds :
       \E oppIndex \in IndexArgsIf(Passes(id, sock, oppGuard)) : PowerPeekOpp(sock, id, oppIndex)
  \/ \E sock \in Sockets, id \in RoomIds : PowerJackSkip(sock, id)
  \/ \E sock \in Sockets, id \in RoomIds :
       \E myIndex \in IndexArgsIf(Passes(id, sock, queenGuard)),
          oppIndex \in IndexArgsIf(Passes(id, sock, queenGuard)) :
         PowerQueenUnseenSwap(sock, id, myIndex, oppIndex)
  \/ \E sock \in Sockets, id \in RoomIds :
       \E myIndex \in IndexArgsIf(Passes(id, sock, kingGuard)),
          oppIndex \in IndexArgsIf(Passes(id, sock, kingGuard)) :
         PowerKingPreview(sock, id, myIndex, oppIndex)
  \/ \E sock \in Sockets, id \in RoomIds, confirm \in BOOLEAN : PowerKingConfirm(sock, id, confirm)
  \/ \E sock \in Sockets, id \in RoomIds :
       \E handIndex \in IndexArgsIf(Passes(id, sock, centerOwnGuard)) :
         CenterPowerPeekOwn(sock, id, handIndex)
  \/ \E sock \in Sockets, id \in RoomIds :
       \E oppIndex \in IndexArgsIf(Passes(id, sock, centerOppGuard)) :
         CenterPowerPeekOpp(sock, id, oppIndex)
  \/ \E sock \in Sockets, id \in RoomIds : CenterPowerJackSkip(sock, id)
  \/ \E sock \in Sockets, id \in RoomIds :
       \E myIndex \in IndexArgsIf(Passes(id, sock, centerQueenGuard)),
          oppIndex \in IndexArgsIf(Passes(id, sock, centerQueenGuard)) :
         CenterPowerQueenUnseenSwap(sock, id, myIndex, oppIndex)
  \/ \E sock \in Sockets : Disconnect(sock)

Spec == Init /\ [][Next]_vars

\* ---------------------------------------------------------------- one room's rounds
\* The rounds of a room with two seated connections, from the state its first
\* game:start leaves. The seeds name the shuffles of these rounds: seed 3 deals
\* the host a hand worth 9 under a 7 on the draw pile, seed 82 a hand worth 9
\* that holds the King of Hearts under a 4.
RoundSeeds == {3, 82}
HostSocket == "s1"
GuestSocket == "s2"

seatedRoom ==
  LET created == [newRoom("R1") EXCEPT
                    !.players = <<newPlayer(HostSocket, NameOf(HostSocket), "Host")>>]
  IN roomJoin(created, GuestSocket, NameOf(GuestSocket)).room

InitRound ==
  \E seed \in RoundSeeds :
    LET res == gameStart(seatedRoom, HostSocket, seed)
    IN /\ rooms = <<res.room>>
       /\ ack = Ack(res.ok, res.error, res.info)
       /\ outbox = res.msgs
       /\ draws = 0
       /\ missing = 0
       /\ connected = Sockets

NextRound ==
  \/ \E sock \in Sockets, id \in RoomIds, seed \in RoundSeeds : GameStart(sock, id, seed)
  \/ \E sock \in Sockets, id \in RoomIds :
       \E index \in IndexArgsIf(Passes(id, sock, peekGuard)) : GamePeek(sock, id, index)
  \/ \E sock \in Sockets, id \in RoomIds :
       \E source \in SourceArgsIf(Passes(id, sock, takeGuard)), seed \in RefillSeeds(id) :
         TurnTake(sock, id, source, seed)
  \/ \E sock \in Sockets, id \in RoomIds :
       \E handIndex \in IndexArgsIf(Passes(id, sock, decideGuard)) : TurnSwap(sock, id, handIndex)
  \/ \E sock \in Sockets, id \in RoomIds : TurnDiscardDrawn(sock, id)
  \/ \E sock \in Sockets, id \in RoomIds : CenterPowerSkip(sock, id)
  \/ \E sock \in Sockets, id \in RoomIds : TurnCabo(sock, id)
  \/ \E sock \in Sockets, id \in RoomIds :
       \E index \in IndexArgsIf(Passes(id, sock, burnGuard)), seed \in RefillSeeds(id) :
         BurnAttempt(sock, id, "self", index, <<0>>, seed)
  \/ \E sock \in Sockets, id \in RoomIds :
       \E index \in IndexArgsIf(Passes(id, sock, burnGuard)),
          giveIndex \in IndexArgsIf(Passes(id, sock, burnGuard)), seed \in RefillSeeds(id) :
         BurnAttempt(sock, id, "opp", index, giveIndex, seed)
  \/ \E sock \in Sockets, id \in RoomIds : BurnAttempt(sock, id, "other", <<0>>, <<0>>, 0)
  \/ \E sock \in Sockets, id \in RoomIds :
       \E handIndex \in IndexArgsIf(Passes(id, sock, ownGuard)) : PowerPeekOwn(sock, id, handIndex)
  \/ \E sock \in Sockets, id \in RoomIds :
       \E oppIndex \in IndexArgsIf(Passes(id, sock, oppGuard)) : PowerPeekOpp(sock, id, oppIndex)
  \/ \E sock \in Sockets, id \in RoomIds : PowerJackSkip(sock, id)
  \/ \E sock \in Sockets, id \in RoomIds :
       \E myIndex \in IndexArgsIf(Passes(id, sock, queenGuard)),
          oppIndex \in IndexArgsIf(Passes(id, sock, queenGuard)) :
         PowerQueenUnseenSwap(sock, id, myIndex, oppIndex)
  \/ \E sock \in Sockets, id \in RoomIds :
       \E myIndex \in IndexArgsIf(Passes(id, sock, kingGuard)),
          oppIndex \in IndexArgsIf(Passes(id, sock, kingGuard)) :
         PowerKingPreview(sock, id, myIndex, oppIndex)
  \/ \E sock \in Sockets, id \in RoomIds, confirm \in BOOLEAN : PowerKingConfirm(sock, id, confirm)
  \/ \E sock \in Sockets, id \in RoomIds :
       \E handIndex \in IndexArgsIf(Passes(id, sock, centerOwnGuard)) :
         CenterPowerPeekOwn(sock, id, handIndex)
  \/ \E sock \in Sockets, id \in RoomIds :
       \E oppIndex \in IndexArgsIf(Passes(id, sock, centerOppGuard)) :
         CenterPowerPeekOpp(sock, id, oppIndex)
  \/ \E sock \in Sockets, id \in RoomIds : CenterPowerJackSkip(sock, id)
  \/ \E sock \in Sockets, id \in RoomIds :
       \E myIndex \in IndexArgsIf(Passes(id, sock, centerQueenGuard)),
          oppIndex \in IndexArgsIf(Passes(id, sock, centerQueenGuard)) :
         CenterPowerQueenUnseenSwap(sock, id, myIndex, oppIndex)
  \/ \E sock \in Sockets : Disconnect(sock)

SpecRound == InitRound /\ [][NextRound]_vars

\* ---------------------------------------------------------------- scoring runs
\* The end of a last turn over hands chosen from a few cards: the opponent of
\* the Cabo caller holds a drawn five or queen and resolves it, by a discard
\* (and the skip of the center power a queen opens) or by the queen's swap.
ScoreHandLen == 2

ScoreCards ==
  {[r |-> "K", s |-> "H"], [r |-> "K", s |-> "D"], [r |-> "K", s |-> "S"],
   [r |-> "A", s |-> "C"], [r |-> "A", s |-> "S"], [r |-> "2", s |-> "D"],
   [r |-> "2", s |-> "C"], [r |-> "3", s |-> "H"]}

ScoreHands ==
  {h \in [1..ScoreHandLen -> ScoreCards] : \A a, b \in 1..ScoreHandLen : h[a] = h[b] => a = b}

ScoreDraws == {[r |-> "5", s |-> "S"], [r |-> "Q", s |-> "S"]}

lastTurnRoom(hostHand, guestHand, drawn) ==
  [seatedRoom EXCEPT !.players[1].hand = hostHand, !.players[2].hand = guestHand,
                     !.players[1].peeksLeft = 0, !.players[2].peeksLeft = 0,
                     !.started = TRUE, !.phase = "TURN_DECIDE", !.turnIndex = 1,
                     !.caboCalledBy = HostSocket, !.lastTurnFor = GuestSocket,
                     !.activeDraw = <<[card |-> drawn]>>]

InitScores ==
  \E hostHand \in ScoreHands, guestHand \in ScoreHands, drawn \in ScoreDraws :
    /\ \A a, b \in 1..ScoreHandLen : hostHand[a] # guestHand[b]
    /\ rooms = <<lastTurnRoom(hostHand, guestHand, drawn)>>
    /\ ack = <<>>
    /\ outbox = <<>>
    /\ draws = 0
    /\ missing = 0
    /\ connected = Sockets

NextScores ==
  \/ TurnDiscardDrawn(GuestSocket, "R1")
  \/ CenterPowerSkip(GuestSocket, "R1")
  \/ \E myIndex \in IndexArgs, oppIndex \in IndexArgs :
       PowerQueenUnseenSwap(GuestSocket, "R1", myIndex, oppIndex)

SpecScores == InitScores /\ [][NextScores]_vars

\* ---------------------------------------------------------------- power runs
\* Rounds taken up in their second turn: both players have used their peeks,
\* the host has drawn and discarded a card below 7, and the guest holds the
\* second card of the draw pile, which the seed makes a king, a jack or a queen.
KingSeed == 12
JackSeed == 17
QueenSeed == 31

secondTurnRoom(seed) ==
  LET dealt == startGame(seatedRoom, seed)
      n == Len(dealt.drawPile)
  IN [dealt EXCEPT !.players[1].peeksLeft = 0, !.players[2].peeksLeft = 0,
                   !.phase = "TURN_DECIDE", !.turnIndex = 1,
                   !.drawPile = SubSeq(dealt.drawPile, 1, n - 2),
                   !.discardPile = <<dealt.drawPile[n]>>,
                   !.activeDraw = <<[card |-> dealt.drawPile[n - 1]]>>]

InitSecondTurn(seed) ==
  /\ rooms = <<secondTurnRoom(seed)>>
  /\ ack = Ack(TRUE, "", "")
  /\ outbox = <<>>
  /\ draws = 0
  /\ missing = 0
  /\ connected = Sockets

InitKing == InitSecondTurn(KingSeed)
InitJack == InitSecondTurn(JackSeed)
InitQueen == InitSecondTurn(QueenSeed)

NextPowers ==
  \/ \E sock \in Sockets, id \in RoomIds :
       \E source \in SourceArgsIf(Passes(id, sock, takeGuard)), seed \in RefillSeeds(id) :
         TurnTake(sock, id, source, seed)
  \/ \E sock \in Sockets, id \in RoomIds :
       \E handIndex \in IndexArgsIf(Passes(id, sock, decideGuard)) : TurnSwap(sock, id, handIndex)
  \/ \E sock \in Sockets, id \in RoomIds : TurnDiscardDrawn(sock, id)
  \/ \E sock \in Sockets, id \in RoomIds : CenterPowerSkip(sock, id)
  \/ \E sock \in Sockets, id \in RoomIds : TurnCabo(sock, id)
  \/ \E sock \in Sockets, id \in RoomIds :
       \E index \in IndexArgsIf(Passes(id, sock, burnGuard)), seed \in RefillSeeds(id) :
         BurnAttempt(sock, id, "self", index, <<0>>, seed)
  \/ \E sock \in Sockets, id \in RoomIds :
       \E index \in IndexArgsIf(Passes(id, sock, burnGuard)),
          giveIndex \in IndexArgsIf(Passes(id, sock, burnGuard)), seed \in RefillSeeds(id) :
         BurnAttempt(sock, id, "opp", index, giveIndex, seed)
  \/ \E sock \in Sockets, id \in RoomIds : BurnAttempt(sock, id, "other", <<0>>, <<0>>, 0)
  \/ \E sock \in Sockets, id \in RoomIds :
       \E handIndex \in IndexArgsIf(Passes(id, sock, ownGuard)) : PowerPeekOwn(sock, id, handIndex)
  \/ \E sock \in Sockets, id \in RoomIds :
       \E oppIndex \in IndexArgsIf(Passes(id, sock, oppGuard)) : PowerPeekOpp(sock, id, oppIndex)
  \/ \E sock \in Sockets, id \in RoomIds : PowerJackSkip(sock, id)
  \/ \E sock \in Sockets, id \in RoomIds :
       \E myIndex \in IndexArgsIf(Passes(id, sock, queenGuard)),
          oppIndex \in IndexArgsIf(Passes(id, sock, queenGuard)) :
         PowerQueenUnseenSwap(sock, id, myIndex, oppIndex)
  \/ \E sock \in Sockets, id \in RoomIds :
       \E myIndex \in IndexArgsIf(Passes(id, sock, kingGuard)),
          oppIndex \in IndexArgsIf(Passes(id, sock, kingGuard)) :
         PowerKingPreview(sock, id, myIndex, oppIndex)
  \/ \E sock \in Sockets, id \in RoomIds, confirm \in BOOLEAN : PowerKingConfirm(sock, id, confirm)
  \/ \E sock \in Sockets, id \in RoomIds :
       \E handIndex \in IndexArgsIf(Passes(id, sock, centerOwnGuard)) :
         CenterPowerPeekOwn(sock, id, handIndex)
  \/ \E sock \in Sockets, id \in RoomIds :
       \E oppIndex \in IndexArgsIf(Passes(id, sock, centerOppGuard)) :
         CenterPowerPeekOpp(sock, id, oppIndex)
  \/ \E sock \in Sockets, id \in RoomIds : CenterPowerJackSkip(sock, id)
  \/ \E sock \in Sockets, id \in RoomIds :
       \E myIndex \in IndexArgsIf(Passes(id, sock, centerQueenGuard)),
          oppIndex \in IndexArgsIf(Passes(id, sock, centerQueenGuard)) :
         CenterPowerQueenUnseenSwap(sock, id, myIndex, oppIndex)
  \/ \E sock \in Sockets : Disconnect(sock)


SpecKing == InitKing /\ [][NextPowers]_vars
SpecJack == InitJack /\ [][NextPowers]_vars
SpecQueen == InitQueen /\ [][NextPowers]_vars

\* ---------------------------------------------------------------- late rounds
\* Rounds taken up with the draw pile almost used up: `played` turns have each
\* drawn the top card and discarded it (a center power was skipped), and the
\* guest has then sent wrong burns of hand[0], each of which pops a penalty
\* card from the draw pile into the guest's hand, until `left` cards remain.
\* With LateSeed the guest's hand[0] is an ace and the discarded cards are a
\* 2, a king and a 10, so each of these burns is a wrong one.
LateSeed == 12
MaxPlayed == 3
MaxLeft == 1

lateRoom(seed, played, left) ==
  LET dealt == startGame(seatedRoom, seed)
      n == Len(dealt.drawPile)
      penalties == [i \in 1..(n - played - left) |-> dealt.drawPile[n - played + 1 - i]]
  IN [dealt EXCEPT !.players[1].peeksLeft = 0, !.players[2].peeksLeft = 0,
                   !.phase = "TURN_DRAW", !.turnIndex = played % 2,
                   !.drawPile = SubSeq(dealt.drawPile, 1, left),
                   !.discardPile = [i \in 1..played |-> dealt.drawPile[n + 1 - i]],
                   !.players[2].hand = @ \o penalties]

InitLate ==
  /\ \E played \in 1..MaxPlayed, left \in 0..MaxLeft :
       rooms = <<lateRoom(LateSeed, played, left)>>
  /\ ack = Ack(TRUE, "", "BURN_WRONG_SELF")
  /\ outbox = <<>>
  /\ draws = 0
  /\ missing = 0
  /\ connected = Sockets

SpecLate == InitLate /\ [][NextPowers]_vars

\* ---------------------------------------------------------------- properties
seats(room) == 1..Len(room.players)
seatSockets(room) == [k \in seats(room) |-> room.players[k].socketId]

RECURSIVE handSizes(_, _)
handSizes(room, k) ==
  IF k > Len(room.players) THEN 0
  ELSE Len(room.players[k].hand) + handSizes(room, k + 1)

totalCards(room) == Len(room.drawPile) + Len(room.discardPile) + handSizes(room, 1)

updates == {i \in 1..Len(outbox) : outbox[i].ev = "room:update"}

allNull(state) ==
  \A p \in 1..Len(state.players) :
    \A h \in 1..Len(state.players[p].hand) : state.players[p].hand[h] = <<>>

\* C1: in every room the draw pile, the discard pile and the hands hold 52
\* cards together. Stated for the rooms that hold any card (a room that was
\* never dealt holds none): such a room holds 52.
C1_FiftyTwoCards ==
  \A k \in 1..Len(rooms) : totalCards(rooms[k]) > 0 => totalCards(rooms[k]) = 52

\* C2: in every room:update, and in publicState of every room for every
\* viewer, each hand slot of each player is null unless the phase is ENDED.
C2_HandsHidden ==
  /\ \A i \in updates : outbox[i].data.phase # "ENDED" => allNull(outbox[i].data)
  /\ \A k \in 1..Len(rooms), viewer \in Sockets :
       rooms[k].phase # "ENDED" => allNull(publicState(rooms[k], viewer))

\* a room:update that shows dealt hands during play
C2_Witness ==
  \E i \in updates :
    /\ outbox[i].data.phase = "TURN_DECIDE"
    /\ \A p \in 1..Len(outbox[i].data.players) : Len(outbox[i].data.players[p].hand) = 4

\* C3: while a card is held in activeDraw, the broadcast state is the same
\* whatever card is held, a connection other than the turn-holder's receives
\* only that broadcast (or the card of a wrong steal it tried itself), and
\* turn:drawResult goes to the turn-holder's connection with the held card.
C3_DrawnCardPrivate ==
  \A k \in 1..Len(rooms) :
    rooms[k].activeDraw # <<>> =>
      /\ \A n \in 1..Len(makeDeck), viewer \in Sockets :
           publicState([rooms[k] EXCEPT !.activeDraw = <<[card |-> makeDeck[n]]>>], viewer)
             = publicState(rooms[k], viewer)
      /\ \A i \in 1..Len(outbox) :
           /\ outbox[i].ev = "room:update" =>
                outbox[i].data = publicState([rooms[k] EXCEPT !.activeDraw = <<>>],
                                             outbox[i].to)
           /\ outbox[i].to # currentTurnSocket(rooms[k]) =>
                outbox[i].ev \in {"room:update", "burn:revealWrong"}
           /\ outbox[i].ev = "turn:drawResult" =>
                /\ outbox[i].to = currentTurnSocket(rooms[k])
                /\ outbox[i].data.card = reveal(rooms[k].activeDraw[1].card)

\* a draw just made in a room of two connections: the result went to the one,
\* a broadcast to the other
C3_Witness ==
  \E k \in 1..Len(rooms) :
    /\ rooms[k].activeDraw # <<>>
    /\ \E i \in 1..Len(outbox) : outbox[i].ev = "turn:drawResult"
    /\ \E i \in 1..Len(outbox) : outbox[i].to # currentTurnSocket(rooms[k])

\* C4: a request acknowledged with ok: false leaves every room as it was.
C4_FailureChangesNothing ==
  [][(ack' # <<>> /\ ~ack'[1].ok) => rooms' = rooms]_vars

\* some request of the turn-scoped handlers succeeds for sock on room
turnScopedOk(room, sock) ==
  \/ \E source \in SourceArgs, seed \in Seeds : turnTake(room, sock, source, seed).ok
  \/ \E handIndex \in IndexArgs : turnSwap(room, sock, handIndex).ok
  \/ turnDiscardDrawn(room, sock).ok
  \/ turnCabo(room, sock).ok
  \/ \E handIndex \in IndexArgs : powerPeekOwn(room, sock, handIndex).ok
  \/ \E oppIndex \in IndexArgs : powerPeekOpp(room, sock, oppIndex).ok
  \/ powerJackSkip(room, sock).ok
  \/ \E myIndex \in IndexArgs, oppIndex \in IndexArgs :
       \/ powerQueenUnseenSwap(room, sock, myIndex, oppIndex).ok
       \/ powerKingPreview(room, sock, myIndex, oppIndex).ok
       \/ centerPowerQueenUnseenSwap(room, sock, myIndex, oppIndex).ok
  \/ \E confirm \in BOOLEAN : powerKingConfirm(room, sock, confirm).ok
  \/ centerPowerSkip(room, sock).ok
  \/ \E handIndex \in IndexArgs : centerPowerPeekOwn(room, sock, handIndex).ok
  \/ \E oppIndex \in IndexArgs : centerPowerPeekOpp(room, sock, oppIndex).ok
  \/ centerPowerJackSkip(room, sock).ok

\* C5: a turn:take, turn:swap, turn:discardDrawn, turn:cabo, power:* or
\* centerPower:* request succeeds only for the connection of players[turnIndex];
\* from any other connection, seated or not, it fails.
C5_TurnHolderOnly ==
  \A k \in 1..Len(rooms), sock \in Sockets :
    turnScopedOk(rooms[k], sock) => sock = currentTurnSocket(rooms[k])

\* the other seated player asked during the turn-holder's decision and was refused
C5_Witness ==
  \E k \in 1..Len(rooms) :
    /\ rooms[k].phase = "TURN_DECIDE"
    /\ rooms[k].players[1].socketId # rooms[k].players[2].socketId
    /\ turnScopedOk(rooms[k], currentTurnSocket(rooms[k]))
    /\ ack = Ack(FALSE, "Not your turn", "")

freshRound(room) ==
  /\ room.started
  /\ Len(room.players) = 2
  /\ \A k \in seats(room) :
       /\ Len(room.players[k].hand) = 4
       /\ \A h \in 1..4 : room.players[k].hand[h] \notin {Undefined, Hole}
       /\ room.players[k].peeksLeft = 2
  /\ Len(room.drawPile) = 44
  /\ room.discardPile = <<>>
  /\ room.phase = "PEEK"
  /\ room.turnIndex = 0
  /\ room.activeDraw = <<>>
  /\ room.pending = <<>>
  /\ room.caboCalledBy = Null
  /\ room.lastTurnFor = Null
  /\ room.skipNextFor = Null
  /\ room.ended = <<>>

\* C6: a successful game:start leaves two hands of 4 cards, peeksLeft 2 for
\* both, a draw pile of 44 and an empty discard pile, phase PEEK, turnIndex 0,
\* and activeDraw, pending, caboCalledBy, lastTurnFor, skipNextFor and ended
\* cleared, whatever the room held before.
C6_FreshRound ==
  \A k \in 1..Len(rooms), sock \in Sockets, seed \in Seeds :
    gameStart(rooms[k], sock, seed).ok => freshRound(gameStart(rooms[k], sock, seed).room)

\* a round started over a round in which a card was held
C6_Witness ==
  \E k \in 1..Len(rooms) :
    /\ rooms[k].phase = "TURN_DECIDE"
    /\ rooms[k].activeDraw # <<>>
    /\ \E sock \in Sockets, seed \in Seeds : gameStart(rooms[k], sock, seed).ok

\* C7: game:start succeeds only for the connection of players[0] and with
\* exactly two players seated; when it fails the room is as before and nothing
\* is emitted.
C7_HostWithTwoPlayers ==
  \A k \in 1..Len(rooms), sock \in Sockets, seed \in Seeds :
    LET res == gameStart(rooms[k], sock, seed)
    IN /\ res.ok => Len(rooms[k].players) = 2 /\ rooms[k].players[1].socketId = sock
       /\ ~res.ok => res.room = rooms[k] /\ res.msgs = <<>>

\* the second player asked to start and was refused; no hand was dealt
C7_Witness ==
  \E k \in 1..Len(rooms) :
    /\ Len(rooms[k].players) = 2
    /\ ack = Ack(FALSE, "Only host can start", "")
    /\ \A p \in seats(rooms[k]) : rooms[k].players[p].hand = <<>>

\* C8: a game:start succeeds only in phase LOBBY or ENDED; in a round in
\* progress it is rejected.
C8_StartOnlyFromLobbyOrEnded ==
  [][\A sock \in Sockets, id \in RoomIds, seed \in Seeds :
       (GameStart(sock, id, seed) /\ ack'[1].ok)
         => getRoom(rooms, id).phase \in {"LOBBY", "ENDED"}]_vars

\* C9: unless a game:start succeeds, a seat's peeksLeft stays in 0..2, does not
\* grow, and changes only by a successful game:peek of its player in phase
\* PEEK, by exactly 1.
C9_PeeksOnlyByPeek ==
  [][\A id \in RoomIds :
       (/\ hasRoom(rooms, id) /\ hasRoom(rooms', id)
        /\ seatSockets(getRoom(rooms, id)) = seatSockets(getRoom(rooms', id))
        /\ ~\E sock \in Sockets, seed \in Seeds : GameStart(sock, id, seed) /\ ack'[1].ok)
         => \A k \in seats(getRoom(rooms, id)) :
              LET before == getRoom(rooms, id).players[k]
                  after == getRoom(rooms', id).players[k]
              IN /\ after.peeksLeft \in 0..2
                 /\ after.peeksLeft <= before.peeksLeft
                 /\ after.peeksLeft # before.peeksLeft =>
                      /\ after.peeksLeft = before.peeksLeft - 1
                      /\ getRoom(rooms, id).phase = "PEEK"
                      /\ \E index \in IndexArgs : GamePeek(before.socketId, id, index)
                      /\ ack'[1].ok]_vars

\* C10: a started room is in phase PEEK exactly as long as some player has
\* peeksLeft > 0, and until then no turn:take, turn:cabo or power request
\* succeeds.
C10_PeekUntilAllUsed ==
  \A k \in 1..Len(rooms) :
    rooms[k].started =>
      /\ rooms[k].phase = "PEEK" <=> \E p \in seats(rooms[k]) : rooms[k].players[p].peeksLeft > 0
      /\ (\E p \in seats(rooms[k]) : rooms[k].players[p].peeksLeft > 0) =>
           \A sock \in Sockets : ~turnScopedOk(rooms[k], sock)

\* C11: while a card is held in activeDraw, every turn:take fails and leaves
\* the room, so drawPile, discardPile and activeDraw, as it was.
C11_NoSecondTake ==
  \A k \in 1..Len(rooms) :
    rooms[k].activeDraw # <<>> =>
      \A sock \in Sockets, source \in SourceArgs, seed \in Seeds :
        /\ ~turnTake(rooms[k], sock, source, seed).ok
        /\ turnTake(rooms[k], sock, source, seed).room = rooms[k]

\* the turn-holder holds a card, asked to draw again and was refused
C11_Witness ==
  \E k \in 1..Len(rooms) :
    /\ rooms[k].activeDraw # <<>>
    /\ rooms[k].phase = "TURN_DECIDE"
    /\ ack = Ack(FALSE, "Not in draw phase", "")

\* C12: a successful turn:take happens in TURN_DRAW or LAST_TURN, moves the
\* top card of the draw pile into activeDraw, sets phase TURN_DECIDE and leaves
\* players and turnIndex as they were; the discard pile is left alone unless
\* the draw pile was empty and is refilled from it; a take that names the
\* source "discard" fails and changes nothing.
C12_TakeMovesOneCard ==
  \A k \in 1..Len(rooms), sock \in Sockets, source \in SourceArgs, seed \in Seeds :
    LET room == rooms[k]
        res == turnTake(room, sock, source, seed)
    IN /\ source = <<"discard">> => ~res.ok /\ res.room = room
       /\ res.ok =>
            /\ room.phase \in {"TURN_DRAW", "LAST_TURN"}
            /\ res.room.phase = "TURN_DECIDE"
            /\ res.room.players = room.players
            /\ res.room.turnIndex = room.turnIndex
            /\ Len(res.room.activeDraw) = 1
            /\ IF Len(room.drawPile) > 0
               THEN /\ res.room.activeDraw[1].card = room.drawPile[Len(room.drawPile)]
                    /\ res.room.drawPile = SubSeq(room.drawPile, 1, Len(room.drawPile) - 1)
                    /\ res.room.discardPile = room.discardPile
               ELSE /\ Len(res.room.drawPile) + 1 = Len(room.discardPile)
                    /\ res.room.discardPile = <<>>

\* a card was just drawn: the result went out and the draw pile is one shorter
C12_Witness ==
  \E k \in 1..Len(rooms) :
    /\ rooms[k].phase = "TURN_DECIDE"
    /\ Len(rooms[k].drawPile) = 43
    /\ ack # <<>> /\ ack[1].ok
    /\ \E i \in 1..Len(outbox) : outbox[i].ev = "turn:drawResult"

\* the turn of the holder of `before` is over in `after`: the round has ended
\* if the holder was on the last turn, else the next player is to draw
turnOver(before, after) ==
  IF before.lastTurnFor # Null /\ currentTurnSocket(before) = before.lastTurnFor
  THEN after.phase = "ENDED" /\ after.turnIndex = before.turnIndex
  ELSE /\ after.phase = "TURN_DRAW"
       /\ after.turnIndex = (before.turnIndex + 1) % Len(before.players)

\* the turn is over, or, when `played` is a 7..K, the holder of `before` keeps
\* the turn with the center power of that card open
turnOverOrCenterPower(before, after, played) ==
  IF isPowerCard(played)
  THEN /\ after.phase = "CENTER_POWER"
       /\ after.turnIndex = before.turnIndex
       /\ after.centerPower = <<[card |-> played,
                                 ownerSocketId |-> currentTurnSocket(before)]>>
  ELSE turnOver(before, after)

\* what a successful turn:swap leaves apart from the phase and the turn
swapPlaced(room, res, handIndex) ==
  LET t == room.turnIndex + 1
      held == room.activeDraw[1].card
  IN /\ handAt(res.room.players[t], handIndex) = held
     /\ res.room.players = [room.players EXCEPT ![t] = handPut(@, handIndex, held)]
     /\ res.room.discardPile = Append(room.discardPile, handAt(room.players[t], handIndex))
     /\ res.room.drawPile = room.drawPile
     /\ res.room.activeDraw = <<>>

drawnPlaced(room, res) ==
  /\ res.room.discardPile = Append(room.discardPile, room.activeDraw[1].card)
  /\ res.room.activeDraw = <<>>
  /\ res.room.players = room.players
  /\ res.room.drawPile = room.drawPile

\* C14 as stated: after a successful turn:discardDrawn the held card is the
\* top of the discard pile, activeDraw is null, no hand changed, and the turn
\* is over (TURN_DRAW with the next player, or ENDED).
C14_DiscardEndsTurn ==
  \A k \in 1..Len(rooms), sock \in Sockets :
    LET room == rooms[k]
        res == turnDiscardDrawn(room, sock)
    IN res.ok => drawnPlaced(room, res) /\ turnOver(room, res.room)

\* C14 amended: the same, except that when the held card is a 7..K the turn is
\* not over: the room is in CENTER_POWER with the actor still the turn-holder
\* and the discarded card as the open center power.
C14_DiscardEndsTurnOrOpensCenterPower ==
  \A k \in 1..Len(rooms), sock \in Sockets :
    LET room == rooms[k]
        res == turnDiscardDrawn(room, sock)
    IN res.ok =>
         /\ drawnPlaced(room, res)
         /\ turnOverOrCenterPower(room, res.room, room.activeDraw[1].card)

\* the drawn card was discarded and is the top of the discard pile, every hand
\* still as dealt
C14_Witness ==
  \E k \in 1..Len(rooms) :
    /\ rooms[k].phase \in {"CENTER_POWER", "TURN_DRAW", "ENDED"}
    /\ Len(rooms[k].drawPile) = 43
    /\ Len(rooms[k].discardPile) = 1
    /\ rooms[k].activeDraw = <<>>
    /\ \E seed \in RoundSeeds : \A j \in 1..2 :
         rooms[k].players[j].hand = startGame(seatedRoom, seed).players[j].hand
    /\ ack # <<>> /\ ack[1].ok

\* C15: in TURN_DRAW the turn-holder's turn:cabo succeeds exactly when the
\* scoreValue sum of the caller's hand is below 10 (a hand with an undefined
\* slot has no sum); when it fails, as with 10 or more, caboCalledBy,
\* lastTurnFor, phase and turnIndex stay as they were.
C15_CaboBelowTen ==
  \A k \in 1..Len(rooms) :
    LET room == rooms[k]
        res == turnCabo(room, currentTurnSocket(room))
    IN room.phase = "TURN_DRAW" =>
         /\ res.ok <=> (~hasUndefined(me(room).hand) /\ sumScore(me(room).hand, 1) < 10)
         /\ ~res.ok =>
              /\ res.room.caboCalledBy = room.caboCalledBy
              /\ res.room.lastTurnFor = room.lastTurnFor
              /\ res.room.phase = room.phase
              /\ res.room.turnIndex = room.turnIndex

\* a turn-holder with 10 or more called Cabo and was refused, nothing recorded
C15_Witness ==
  \E k \in 1..Len(rooms) :
    /\ rooms[k].phase = "TURN_DRAW"
    /\ sumScore(me(rooms[k]).hand, 1) >= 10
    /\ rooms[k].caboCalledBy = Null
    /\ ack = Ack(FALSE, "Cabo not allowed (total must be less than 10).", "")

\* C16: turn:cabo succeeds only in TURN_DRAW, where no drawn card is held; in
\* PEEK, TURN_DECIDE, CENTER_POWER, LAST_TURN and ENDED it fails and changes
\* nothing, so a held activeDraw card is never dropped by it.
C16_CaboOnlyInTurnDraw ==
  \A k \in 1..Len(rooms), sock \in Sockets :
    LET room == rooms[k]
        res == turnCabo(room, sock)
    IN /\ res.ok => room.phase = "TURN_DRAW" /\ room.activeDraw = <<>>
       /\ room.phase # "TURN_DRAW" => ~res.ok /\ res.room = room

\* a turn-holder whose hand is below 10 called Cabo while holding a drawn card
\* and was refused, the card still held
C16_Witness ==
  \E k \in 1..Len(rooms) :
    /\ rooms[k].phase = "TURN_DECIDE"
    /\ rooms[k].activeDraw # <<>>
    /\ sumScore(me(rooms[k]).hand, 1) < 10
    /\ ack = Ack(FALSE, "Call Cabo at start of your turn", "")

\* C17: a successful turn:cabo sets caboCalledBy to the caller, lastTurnFor to
\* the other seated player, makes that player the turn-holder, sets phase
\* LAST_TURN, and leaves hands, drawPile and discardPile as they were.
C17_CaboGrantsLastTurn ==
  \A k \in 1..Len(rooms), sock \in Sockets :
    LET room == rooms[k]
        res == turnCabo(room, sock)
    IN res.ok =>
         /\ res.room.caboCalledBy = sock
         /\ res.room.lastTurnFor = opp(room).socketId
         /\ res.room.lastTurnFor # sock
         /\ currentTurnSocket(res.room) = res.room.lastTurnFor
         /\ res.room.turnIndex = (room.turnIndex + 1) % 2
         /\ res.room.phase = "LAST_TURN"
         /\ res.room.players = room.players
         /\ res.room.drawPile = room.drawPile
         /\ res.room.discardPile = room.discardPile

\* Cabo was just called: the other player holds the last turn
C17_Witness ==
  \E k \in 1..Len(rooms) :
    /\ rooms[k].phase = "LAST_TURN"
    /\ rooms[k].caboCalledBy # Null
    /\ rooms[k].lastTurnFor = currentTurnSocket(rooms[k])
    /\ rooms[k].caboCalledBy # rooms[k].lastTurnFor
    /\ ack = Ack(TRUE, "", "")

\* Cabo has been called in the running round of `room` and the round is not over
lastTurnRunning(room) ==
  room.started /\ room.caboCalledBy # Null /\ room.phase # "ENDED"

\* one step of the last turn from `before` to `after`: the turn stays with the
\* opponent, who draws once, and a resolution of the held card or of the center
\* power ends the round
lastTurnStep(before, after, acked) ==
  /\ after.turnIndex = before.turnIndex
  /\ before.phase = "LAST_TURN" => after.phase \in {"LAST_TURN", "TURN_DECIDE"}
  /\ before.phase = "TURN_DECIDE" => after.phase \in {"TURN_DECIDE", "CENTER_POWER", "ENDED"}
  /\ before.phase = "CENTER_POWER" => after.phase \in {"CENTER_POWER", "ENDED"}
  /\ acked /\ before.activeDraw # <<>> /\ after.activeDraw = <<>>
       => after.phase \in {"CENTER_POWER", "ENDED"}
  /\ acked /\ before.centerPower # <<>> /\ after.centerPower = <<>>
       => after.phase = "ENDED"

\* C18: from a successful turn:cabo until ENDED the turn is held by the
\* opponent (lastTurnFor), the caller has no turn-scoped request that succeeds,
\* the opponent draws at most once, and the opponent's resolution of the drawn
\* card (swap, discard, power, or the center power that follows) ends the round
\* instead of passing the turn.
C18_OneLastTurn ==
  [][\A k \in 1..Len(rooms) :
       lastTurnRunning(rooms[k]) =>
         /\ rooms[k].phase \in {"LAST_TURN", "TURN_DECIDE", "CENTER_POWER"}
         /\ rooms[k].lastTurnFor # Null
         /\ rooms[k].lastTurnFor # rooms[k].caboCalledBy
         /\ currentTurnSocket(rooms[k]) = rooms[k].lastTurnFor
         /\ ~turnScopedOk(rooms[k], rooms[k].caboCalledBy)
         /\ k <= Len(rooms') /\ rooms'[k].started /\ rooms'[k].caboCalledBy # Null
              => lastTurnStep(rooms[k], rooms'[k], ack' # <<>> /\ ack'[1].ok)]_vars

\* the round that Cabo was called in is over: the opponent has drawn one card
\* and resolved it, and the scores are out
C18_Witness ==
  \E k \in 1..Len(rooms) :
    /\ rooms[k].phase = "ENDED"
    /\ rooms[k].caboCalledBy # Null
    /\ currentTurnSocket(rooms[k]) = rooms[k].lastTurnFor
    /\ Len(rooms[k].drawPile) = 43
    /\ rooms[k].ended # <<>>

\* some game:peek or burn:attempt of `sock` succeeds in `room`
peekOrBurnOk(room, sock) ==
  \/ \E index \in IndexArgs : gamePeek(room, sock, index).ok
  \/ \E index \in IndexArgs, seed \in Seeds :
       burnAttempt(room, sock, "self", index, <<0>>, seed).ok
  \/ \E index \in IndexArgs, giveIndex \in IndexArgs, seed \in Seeds :
       burnAttempt(room, sock, "opp", index, giveIndex, seed).ok
  \/ burnAttempt(room, sock, "other", <<0>>, <<0>>, 0).ok

\* C19: ENDED is terminal. While phase = ENDED no game:peek, turn:take,
\* turn:swap, turn:discardDrawn, turn:cabo, power:*, centerPower:* or
\* burn:attempt succeeds, and a step leaves the room as it is, hands and piles
\* included, unless it is a successful game:start (to PEEK) or a disconnect
\* (to LOBBY, or the room is gone).
C19_EndedIsTerminal ==
  [][\A k \in 1..Len(rooms) :
       rooms[k].phase = "ENDED" =>
         /\ \A sock \in Sockets :
              ~turnScopedOk(rooms[k], sock) /\ ~peekOrBurnOk(rooms[k], sock)
         /\ \/ Len(rooms') < k /\ ack' = <<>>
            \/ /\ k <= Len(rooms')
               /\ \/ rooms'[k] = rooms[k]
                  \/ /\ rooms'[k].phase = "PEEK"
                     /\ ack' = Ack(TRUE, "", "")
                     /\ \E seed \in RoundSeeds \cup Seeds :
                          rooms'[k] = startGame(rooms[k], seed)
                  \/ /\ rooms'[k].phase = "LOBBY"
                     /\ ack' = <<>>
                     /\ connected' # connected]_vars

\* after the round ended a seated player asked to draw and was refused
C19_Witness ==
  \E k \in 1..Len(rooms) :
    /\ rooms[k].phase = "ENDED"
    /\ rooms[k].ended # <<>>
    /\ ack = Ack(FALSE, "Not in draw phase", "")

\* the points of a card held at the end: a red king -1, an ace 1, a jack 11,
\* a queen 12, a black king 13, a number card its number
heldPoints(card) ==
  IF card.r = "K" THEN (IF card.s \in {"H", "D"} THEN 0 - 1 ELSE 13)
  ELSE IF card.r = "Q" THEN 12
  ELSE IF card.r = "J" THEN 11
  ELSE IF card.r = "A" THEN 1
  ELSE CHOOSE n \in 2..10 : ToString(n) = card.r

RECURSIVE handPoints(_, _)
handPoints(hand, k) ==
  IF k = 0 THEN 0
  ELSE (IF hand[k] = Hole THEN 0 ELSE heldPoints(hand[k])) + handPoints(hand, k - 1)

\* ended.scores of `room` lists each player's name with the points of that
\* player's hand, lowest first, players[0] first on equal totals, and
\* winnerName is the first name listed
scoresAsStated(room) ==
  LET p1 == room.players[1]
      p2 == room.players[2]
      t1 == handPoints(p1.hand, Len(p1.hand))
      t2 == handPoints(p2.hand, Len(p2.hand))
      e == room.ended[1]
  IN /\ e.scores = IF t1 <= t2
                   THEN <<[name |-> p1.name, score |-> t1],
                          [name |-> p2.name, score |-> t2]>>
                   ELSE <<[name |-> p2.name, score |-> t2],
                          [name |-> p1.name, score |-> t1]>>
     /\ e.scores[1].score <= e.scores[2].score
     /\ e.winnerName = IF t1 <= t2 THEN p1.name ELSE p2.name

C20_ScoresWhenPresent ==
  \A k \in 1..Len(rooms) :
    rooms[k].phase = "ENDED" /\ rooms[k].ended # <<>> => scoresAsStated(rooms[k])

\* a round ended on equal totals, a red king in a hand, and players[0] won
C20_TieSeen ==
  \E k \in 1..Len(rooms) :
    /\ rooms[k].phase = "ENDED"
    /\ rooms[k].ended # <<>>
    /\ rooms[k].ended[1].scores[1].score = rooms[k].ended[1].scores[2].score
    /\ \E i \in 1..Len(rooms[k].players[2].hand) :
         rooms[k].players[2].hand[i] = [r |-> "K", s |-> "H"]
    /\ rooms[k].ended[1].winnerName = rooms[k].players[1].name

\* the holder of `room` is on the last turn
onLastTurn(room) ==
  room.lastTurnFor # Null /\ currentTurnSocket(room) = room.lastTurnFor

\* if `res` ended the turn of the holder of `before`, the other player is to draw
handsOver(before, res) ==
  res.ok /\ res.room.phase = "TURN_DRAW" =>
    res.room.turnIndex = (before.turnIndex + 1) % 2

\* every resolution other than a jack by which `sock` ends its turn in `room`
\* hands the turn to the other player
passesTurn(room, sock) ==
  /\ handsOver(room, turnDiscardDrawn(room, sock))
  /\ handsOver(room, centerPowerSkip(room, sock))
  /\ \A confirm \in BOOLEAN : handsOver(room, powerKingConfirm(room, sock, confirm))
  /\ \A i \in IndexArgs :
       /\ handsOver(room, turnSwap(room, sock, i))
       /\ handsOver(room, powerPeekOwn(room, sock, i))
       /\ handsOver(room, powerPeekOpp(room, sock, i))
       /\ handsOver(room, centerPowerPeekOwn(room, sock, i))
       /\ handsOver(room, centerPowerPeekOpp(room, sock, i))
       /\ \A j \in IndexArgs :
            /\ handsOver(room, powerQueenUnseenSwap(room, sock, i, j))
            /\ handsOver(room, centerPowerQueenUnseenSwap(room, sock, i, j))

\* a jack resolved by `sock` outside the last turn: the same player is to draw,
\* the mark is gone, and after that draw the turn goes to the other player
jackSkipsOnce(room, sock, res) ==
  res.ok /\ ~onLastTurn(room) =>
    /\ res.room.phase = "TURN_DRAW"
    /\ res.room.turnIndex = room.turnIndex
    /\ currentTurnSocket(res.room) = sock
    /\ res.room.skipNextFor = Null
    /\ turnTake(res.room, sock, <<>>, 0).ok
    /\ passesTurn(turnTake(res.room, sock, <<>>, 0).room, sock)

\* C21: a jack resolved outside the last turn (power:jackSkip or
\* centerPower:jackSkip) skips the opponent exactly once: the jack user is the
\* turn-holder of the next TURN_DRAW, skipNextFor is null again, and the jack
\* user's following turn-ending action gives the turn to the opponent; no
\* running round outside ENDED carries a skipNextFor mark.
C21_JackSkipsOnce ==
  \A k \in 1..Len(rooms) :
    /\ rooms[k].started /\ rooms[k].phase # "ENDED" => rooms[k].skipNextFor = Null
    /\ rooms[k].started /\ rooms[k].phase # "ENDED" =>
         passesTurn(rooms[k], currentTurnSocket(rooms[k]))
    /\ \A sock \in Sockets :
         /\ jackSkipsOnce(rooms[k], sock, powerJackSkip(rooms[k], sock))
         /\ jackSkipsOnce(rooms[k], sock, centerPowerJackSkip(rooms[k], sock))

\* the guest has used the drawn jack and is to draw again
C21_Witness ==
  \E k \in 1..Len(rooms) :
    /\ rooms[k].phase = "TURN_DRAW"
    /\ rooms[k].turnIndex = 1
    /\ Len(rooms[k].drawPile) = 42
    /\ last(rooms[k].discardPile).r = "J"
    /\ rooms[k].skipNextFor = Null
    /\ ack = Ack(TRUE, "", "")

\* an index that names a slot of a hand of length n
inHand(index, n) == index # <<>> /\ index[1] >= 0 /\ index[1] < n

\* the players of `room` after own slot myIndex and the opponent's slot
\* oppIndex have changed places
exchanged(room, myIndex, oppIndex) ==
  LET t == room.turnIndex + 1
      o == ((room.turnIndex + 1) % 2) + 1
  IN [room.players EXCEPT
        ![t] = handPut(@, myIndex, handAt(room.players[o], oppIndex)),
        ![o] = handPut(@, oppIndex, handAt(room.players[t], myIndex))]

\* C22: when the turn-holder holds a drawn queen, power:queenUnseenSwap(myIndex,
\* oppIndex) with indices inside the two hands succeeds; after a successful one
\* own hand[myIndex] and the opponent's hand[oppIndex] have changed places, no
\* other slot has changed, the queen is the top of the discard pile, activeDraw
\* is null and the turn has advanced.
C22_QueenExchanges ==
  \A k \in 1..Len(rooms), sock \in Sockets, myIndex \in IndexArgs, oppIndex \in IndexArgs :
    LET room == rooms[k]
        res == powerQueenUnseenSwap(room, sock, myIndex, oppIndex)
        t == room.turnIndex + 1
        o == ((room.turnIndex + 1) % 2) + 1
    IN /\ /\ queenGuard(room, sock) = ""
          /\ inHand(myIndex, Len(me(room).hand)) /\ inHand(oppIndex, Len(opp(room).hand))
          /\ ~onLastTurn(room)
          => res.ok
       /\ res.ok =>
            /\ room.activeDraw[1].card.r = "Q"
            /\ handAt(res.room.players[t], myIndex) = handAt(room.players[o], oppIndex)
            /\ handAt(res.room.players[o], oppIndex) = handAt(room.players[t], myIndex)
            /\ res.room.players = exchanged(room, myIndex, oppIndex)
            /\ res.room.discardPile = Append(room.discardPile, room.activeDraw[1].card)
            /\ res.room.drawPile = room.drawPile
            /\ res.room.activeDraw = <<>>
            /\ turnOver(room, res.room)

\* the guest has used the drawn queen on slot 0 of both hands: each of the two
\* cards dealt there lies in the other hand and the host is to draw
C22_Witness ==
  \E k \in 1..Len(rooms) :
    /\ rooms[k].phase = "TURN_DRAW"
    /\ rooms[k].turnIndex = 0
    /\ last(rooms[k].discardPile).r = "Q"
    /\ rooms[k].players[1].hand[1] = secondTurnRoom(QueenSeed).players[2].hand[1]
    /\ rooms[k].players[2].hand[1] = secondTurnRoom(QueenSeed).players[1].hand[1]
    /\ ack = Ack(TRUE, "", "")

\* what power:kingConfirm(false) by `sock` leaves of `opened`, a room with a
\* preview opened from `room`
cancelled(room, opened, sock) ==
  LET c == powerKingConfirm(opened, sock, FALSE)
  IN /\ c.ok
     /\ c.room.players = room.players
     /\ c.room.discardPile = Append(room.discardPile, room.activeDraw[1].card)
     /\ c.room.drawPile = room.drawPile
     /\ c.room.activeDraw = <<>>
     /\ c.room.pending = <<>>
     /\ turnOver(room, c.room)

\* C23: a successful power:kingPreview followed by power:kingConfirm(false)
\* from the same player leaves both hands as they were before the preview,
\* puts the drawn king on top of the discard pile, clears activeDraw and
\* pending, and advances the turn.
C23_KingCancelKeepsHands ==
  \A k \in 1..Len(rooms), sock \in Sockets, myIndex \in IndexArgs, oppIndex \in IndexArgs :
    LET room == rooms[k]
        p == powerKingPreview(room, sock, myIndex, oppIndex)
    IN p.ok =>
         /\ room.activeDraw[1].card.r = "K"
         /\ p.room.players = room.players
         /\ p.room.pending # <<>>
         /\ cancelled(room, p.room, sock)

\* the guest has opened a preview on the drawn king and may cancel it
C23_Witness ==
  \E k \in 1..Len(rooms) :
    /\ rooms[k].pending # <<>>
    /\ rooms[k].pending[1].playerSocketId = GuestSocket
    /\ rooms[k].activeDraw # <<>> /\ rooms[k].activeDraw[1].card.r = "K"
    /\ powerKingConfirm(rooms[k], GuestSocket, FALSE).ok
    /\ \E i \in 1..Len(outbox) : outbox[i].ev = "king:preview"
    /\ ack = Ack(TRUE, "", "")

\* hands, piles, activeDraw, phase and turnIndex are the same in both rooms
frozen(before, after) ==
  /\ after.players = before.players
  /\ after.drawPile = before.drawPile
  /\ after.discardPile = before.discardPile
  /\ after.activeDraw = before.activeDraw
  /\ after.phase = before.phase
  /\ after.turnIndex = before.turnIndex

\* C24: while a king preview is pending, a step that is neither a disconnect
\* nor the power:kingConfirm that resolves it (pending cleared, the king put on
\* the discard pile) changes no hand, no pile, and neither activeDraw, phase
\* nor turnIndex.
C24_PendingFreezesRoom ==
  [][\A k \in 1..Len(rooms) :
       rooms[k].pending # <<>> /\ connected' = connected /\ k <= Len(rooms') =>
         \/ frozen(rooms[k], rooms'[k])
         \/ /\ ack' # <<>> /\ ack'[1].ok
            /\ rooms'[k].pending = <<>>
            /\ rooms[k].activeDraw # <<>>
            /\ rooms'[k].discardPile =
                 Append(rooms[k].discardPile, rooms[k].activeDraw[1].card)]_vars

\* `room` is in TURN_DECIDE with a drawn card of one of `rankSet` held
drawnRank(room, rankSet) ==
  /\ room.phase = "TURN_DECIDE"
  /\ room.activeDraw # <<>>
  /\ room.activeDraw[1].card.r \in rankSet

\* `room` is in CENTER_POWER with a card of one of `rankSet` just played to the
\* center by `sock`
centerRank(room, sock, rankSet) ==
  /\ room.phase = "CENTER_POWER"
  /\ room.centerPower # <<>>
  /\ room.centerPower[1].ownerSocketId = sock
  /\ room.centerPower[1].card.r \in rankSet

\* `res` succeeded only where `allowed` holds, and where it does not hold `res`
\* failed and left `room` as it was
onlyWhere(allowed, room, res) ==
  /\ res.ok => allowed
  /\ ~allowed => ~res.ok /\ res.room = room

\* the power:* requests of `sock` take effect only on a drawn card of their rank
drawnPowersOnly(room, sock) ==
  /\ onlyWhere(drawnRank(room, {"J"}), room, powerJackSkip(room, sock))
  /\ \A confirm \in BOOLEAN :
       onlyWhere(drawnRank(room, {"K"}), room, powerKingConfirm(room, sock, confirm))
  /\ \A i \in IndexArgs :
       /\ onlyWhere(drawnRank(room, {"7", "8"}), room, powerPeekOwn(room, sock, i))
       /\ onlyWhere(drawnRank(room, {"9", "10"}), room, powerPeekOpp(room, sock, i))
       /\ \A j \in IndexArgs :
            /\ onlyWhere(drawnRank(room, {"Q"}), room, powerQueenUnseenSwap(room, sock, i, j))
            /\ onlyWhere(drawnRank(room, {"K"}), room, powerKingPreview(room, sock, i, j))

pileBag(pile) ==
  LET cards == {pile[i] : i \in 1..Len(pile)}
  IN [c \in cards |-> Cardinality({i \in 1..Len(pile) : pile[i] = c})]

\* the turn-holder may draw: only the piles can still make turn:take fail
mayDraw(room) ==
  /\ Len(room.players) = 2
  /\ takeGuard(room, currentTurnSocket(room)) = ""

\* C26: turn:take with the draw pile empty and the center pile not empty
\* reshuffles the whole center pile into the draw pile (the same multiset of
\* cards) and the draw succeeds with the top card of the new draw pile; with
\* both piles empty it fails with 'No cards left to draw' and the room is
\* unchanged.
C26_RefillOnEmptyDrawPile ==
  \A k \in 1..Len(rooms), source \in {<<>>, <<"draw">>}, seed \in Seeds :
    LET room == rooms[k]
        res == turnTake(room, currentTurnSocket(room), source, seed)
    IN mayDraw(room) /\ room.drawPile = <<>> =>
         IF room.discardPile = <<>>
         THEN ~res.ok /\ res.error = "No cards left to draw" /\ res.room = room
         ELSE /\ res.ok
              /\ res.room.discardPile = <<>>
              /\ res.room.activeDraw # <<>>
              /\ res.room.phase = "TURN_DECIDE"
              /\ pileBag(Append(res.room.drawPile, res.room.activeDraw[1].card)) =
                   pileBag(room.discardPile)
              /\ [j \in seats(room) |-> res.room.players[j].hand] =
                   [j \in seats(room) |-> room.players[j].hand]

\* a center pile of three cards has just been reshuffled into the draw pile
\* and the first of them drawn
C26_Witness ==
  \E k \in 1..Len(rooms) :
    /\ rooms[k].phase = "TURN_DECIDE"
    /\ rooms[k].activeDraw # <<>>
    /\ rooms[k].discardPile = <<>>
    /\ Len(rooms[k].drawPile) = 2
    /\ ack = Ack(TRUE, "", "")
    /\ draws = 1

\* C27: whenever the turn-holder may draw (TURN_DRAW or LAST_TURN, nothing
\* held, nothing pending), the draw does not fail for lack of cards: the
\* draw pile and the center pile are never both empty at the start of a turn.
C27_DrawNeverLacksCards ==
  \A k \in 1..Len(rooms) : mayDraw(rooms[k]) => ~refillThrows(rooms[k])

\* C28: room:join fails with 'Room not found' for an identifier that is not
\* registered and with 'Room full' when 2 players are seated; otherwise it
\* seats the caller as player 1 (the second seat) and changes nothing else;
\* no room has more than 2 players.
C28_JoinSeatsSecondPlayer ==
  /\ \A id \in RoomIds : ack = Ack(FALSE, "Room not found", "") => ~hasRoom(rooms, id)
  /\ \A k \in 1..Len(rooms), sock \in Sockets :
       LET room == rooms[k]
           res == roomJoin(room, sock, NameOf(sock))
       IN /\ Len(room.players) \in 1..2
          /\ IF Len(room.players) = 2
             THEN ~res.ok /\ res.error = "Room full" /\ res.room = room
             ELSE /\ res.ok
                  /\ Len(res.room.players) = 2
                  /\ res.room.players[1] = room.players[1]
                  /\ res.room.players[2].socketId = sock
                  /\ res.room.players[2].hand = <<>>
                  /\ [res.room EXCEPT !.players = room.players] = room

\* a third connection has just been refused by a room whose second seat the
\* second connection took
C28_Witness ==
  \E k \in 1..Len(rooms) :
    /\ Len(rooms[k].players) = 2
    /\ rooms[k].players[2].socketId = "s2"
    /\ ack = Ack(FALSE, "Room full", "")

\* C29: a registered room has a player seated (the room is removed when its
\* last player disconnects); a room left with one player by a disconnect is in
\* LOBBY, not started, and its draw pile, its center pile and the remaining
\* player's hand are empty.
C29_DisconnectClearsRoom ==
  \A k \in 1..Len(rooms) :
    /\ Len(rooms[k].players) >= 1
    /\ Len(rooms[k].players) = 1 =>
         /\ rooms[k].phase = "LOBBY"
         /\ ~rooms[k].started
         /\ rooms[k].drawPile = <<>>
         /\ rooms[k].discardPile = <<>>
         /\ rooms[k].players[1].hand = <<>>

\* C30: no registered room lists a connection that has disconnected as a
\* player.
C30_NoDisconnectedPlayer ==
  \A k \in 1..Len(rooms) : \A j \in seats(rooms[k]) :
    rooms[k].players[j].socketId \in connected

\* C31: room:create registers a fresh room: a room that is already registered
\* under the identifier roomId() returns is neither replaced nor altered by
\* the room:create (acknowledged with the identifier).
C31_CreateKeepsRegisteredRooms ==
  [][\A id \in RoomIds :
       ack' = Ack(TRUE, "", id) /\ hasRoom(rooms, id) =>
         hasRoom(rooms', id) /\ getRoom(rooms', id) = getRoom(rooms, id)]_vars

\* a round is running: started and neither ended nor reset
inRound(room) ==
  room.phase \in {"PEEK", "TURN_DRAW", "TURN_DECIDE", "LAST_TURN", "CENTER_POWER"}

\* every hand has 4 slots and each of them holds a card
fullHands(room) ==
  \A j \in seats(room) :
    /\ Len(room.players[j].hand) = 4
    /\ \A n \in 1..4 : room.players[j].hand[n] \notin {Undefined, Hole}

\* the request that left `res` kept the hands of a running round full
keepsFullHands(room, res) == inRound(room) /\ fullHands(room) => fullHands(res.room)

\* C32: from game:start until the round ends or is reset every hand has
\* exactly 4 slots, each holding a card; turn:swap, power:queenUnseenSwap and
\* power:kingConfirm never change the length of a hand or leave a slot without
\* a card.
C32_HandsStayFull ==
  \A k \in 1..Len(rooms), sock \in Sockets :
    LET room == rooms[k]
    IN /\ \A i \in IndexArgs :
            /\ keepsFullHands(room, turnSwap(room, sock, i))
            /\ \A j \in IndexArgs :
                 keepsFullHands(room, powerQueenUnseenSwap(room, sock, i, j))
       /\ \A confirm \in BOOLEAN :
            keepsFullHands(room, powerKingConfirm(room, sock, confirm))
       /\ inRound(room) => fullHands(room)

\* the cards in the slots of all hands, one hand after the other
RECURSIVE handCards(_, _)
handCards(players, j) ==
  IF j > Len(players) THEN <<>> ELSE players[j].hand \o handCards(players, j + 1)

\* the cards of the piles, of the hands and the card held
roomCards(room) ==
  room.drawPile \o room.discardPile \o handCards(room.players, 1) \o
    (IF room.activeDraw = <<>> THEN <<>> ELSE <<room.activeDraw[1].card>>)

\* C33: in every started room the draw pile, the center pile, the hands and
\* the held card together contain each of the 52 cards exactly once.
C33_FiftyTwoCardsOnce ==
  \A k \in 1..Len(rooms) :
    rooms[k].started => pileBag(roomCards(rooms[k])) = pileBag(makeDeck)

\* the rooms `room` can be in after at most one burn:attempt of a seated player
afterBurn(room) ==
  {room} \cup
  {burnAttempt(room, room.players[b].socketId, target, index, <<0>>, 0).room :
     b \in seats(room), target \in {"self", "opp"}, index \in {<<0>>, <<3>>}}

\* C34: power:kingConfirm(true) exchanges exactly the two cards that the
\* power:kingPreview before it revealed, the cards at myIndex and oppIndex at
\* preview time, whatever the players do between preview and confirm.
C34_KingSwapsPreviewedCards ==
  \A k \in 1..Len(rooms), myIndex \in IndexArgs, oppIndex \in IndexArgs :
    LET room == rooms[k]
        sock == currentTurnSocket(room)
        preview == powerKingPreview(room, sock, myIndex, oppIndex)
    IN Len(room.players) = 2 /\ preview.ok =>
         \A between \in afterBurn(preview.room) :
           LET res == powerKingConfirm(between, sock, TRUE)
           IN res.ok =>
                /\ handAt(res.room.players[room.turnIndex + 1], myIndex) =
                     handAt(opp(room), oppIndex)
                /\ handAt(res.room.players[((room.turnIndex + 1) % 2) + 1], oppIndex) =
                     handAt(me(room), myIndex)

\* slot `index` of a hand of n slots exists and holds `card`, a card
holdsCard(hand, index) ==
  /\ inHand(index, Len(hand))
  /\ slot(hand, index[1]) \notin {Undefined, Hole}

\* a burn is refused and changes nothing
burnRefused(room, res) == ~res.ok /\ res.room = room

\* what a burn leaves apart from the hands and the piles is what it found
burnFrame(room, res) ==
  [res.room EXCEPT !.players = room.players, !.drawPile = room.drawPile,
                   !.discardPile = room.discardPile] = room

\* a matching burn: the chosen card goes from hand[index] of the target to the
\* top of the center pile; on an opponent burn the burner's hand[giveIndex]
\* goes to the end of the victim's hand
burnHit(room, res, b, v, target, index, giveIndex) ==
  LET burner == room.players[b].hand
      victim == room.players[v].hand
  IN /\ res.ok
     /\ burnFrame(room, res)
     /\ res.room.drawPile = room.drawPile
     /\ IF target = "self"
        THEN /\ res.room.discardPile = Append(room.discardPile, slot(burner, index[1]))
             /\ res.room.players[b].hand = spliceOut(burner, index[1])
             /\ res.room.players[v].hand = victim
        ELSE /\ res.room.discardPile = Append(room.discardPile, slot(victim, index[1]))
             /\ res.room.players[b].hand = spliceOut(burner, giveIndex[1])
             /\ res.room.players[v].hand =
                  Append(spliceOut(victim, index[1]), burner[giveIndex[1] + 1])

\* a wrong burn as stated: the top card of the draw pile goes to the end of the
\* burner's hand and nothing else moves
burnMiss(room, res, b, v) ==
  /\ res.ok
  /\ burnFrame(room, res)
  /\ room.drawPile # <<>>
  /\ res.room.drawPile = popped(room.drawPile)
  /\ res.room.discardPile = room.discardPile
  /\ res.room.players[b].hand = Append(room.players[b].hand, last(room.drawPile))
  /\ res.room.players[v].hand = room.players[v].hand

\* a wrong burn on an empty draw pile: the whole center pile is reshuffled into
\* the draw pile first, and its top card is the penalty
burnMissRefilled(room, res, b, v) ==
  LET hand == res.room.players[b].hand
  IN /\ res.ok
     /\ burnFrame(room, res)
     /\ room.drawPile = <<>>
     /\ res.room.discardPile = <<>>
     /\ Len(hand) = Len(room.players[b].hand) + 1
     /\ popped(hand) = room.players[b].hand
     /\ pileBag(Append(res.room.drawPile, last(hand))) = pileBag(room.discardPile)
     /\ res.room.players[v].hand = room.players[v].hand

\* burn:attempt of a seated player on `room`, with `refill` telling whether a
\* wrong burn may reshuffle the center pile
burnAsStated(room, refill) ==
  \A b \in seats(room), target \in {"self", "opp"}, index \in IndexArgs :
  \A giveIndex \in (IF target = "opp" THEN IndexArgs ELSE {<<0>>}),
     seed \in (IF needsRefill(room) THEN Seeds ELSE {0}) :
    LET sock == room.players[b].socketId
        v == (b % 2) + 1
        res == burnAttempt(room, sock, target, index, giveIndex, seed)
        top == last(room.discardPile)
        chosen == slot(room.players[IF target = "self" THEN b ELSE v].hand, index[1])
    IN /\ room.phase \in {"LOBBY", "PEEK", "ENDED"} \/ top = Undefined =>
            burnRefused(room, res)
       /\ ~res.ok => res.room = room
       /\ /\ findIndex(room, sock) = b - 1
          /\ Len(room.players) = 2
          /\ room.phase \notin {"LOBBY", "PEEK", "ENDED"}
          /\ top # Undefined
          /\ holdsCard(room.players[IF target = "self" THEN b ELSE v].hand, index)
          /\ target = "opp" => inHand(giveIndex, Len(room.players[b].hand))
          => IF chosen.r = top.r
             THEN burnHit(room, res, b, v, target, index, giveIndex)
             ELSE \/ burnMiss(room, res, b, v)
                  \/ refill /\ burnMissRefilled(room, res, b, v)

\* C35 as stated: burn:attempt is rejected in LOBBY, PEEK and ENDED and on an
\* empty center pile; a burn of a card of the top's rank moves exactly that
\* card to the top of the center pile (and, on an opponent burn, one card of
\* the burner to the victim); a burn of another rank moves exactly one penalty
\* card from the draw pile to the burner's hand and no other card.
C35_BurnMovesOneCard ==
  \A k \in 1..Len(rooms) : burnAsStated(rooms[k], FALSE)

\* C35 amended: as stated, except that a wrong burn on an empty draw pile first
\* reshuffles the whole center pile into the draw pile and takes the penalty
\* card from there.
C35_BurnMovesOneCardAfterRefill ==
  \A k \in 1..Len(rooms) : burnAsStated(rooms[k], TRUE)

\* a wrong burn has just reshuffled a center pile of three cards into the empty
\* draw pile and given the burner one of them
C35_Witness ==
  \E k \in 1..Len(rooms) :
    /\ rooms[k].phase = "TURN_DRAW"
    /\ rooms[k].activeDraw = <<>>
    /\ rooms[k].discardPile = <<>>
    /\ Len(rooms[k].drawPile) = 2
    /\ ack = Ack(TRUE, "", "BURN_WRONG_SELF")

\* C36: activeDraw is set exactly when the phase is TURN_DECIDE; the room is
\* never in TURN_DECIDE without a held card.
C36_HeldCardIffDecide ==
  \A k \in 1..Len(rooms) : rooms[k].activeDraw # <<>> <=> rooms[k].phase = "TURN_DECIDE"

C38_SeatsDistinct ==
  \A k \in 1..Len(rooms) : \A i, j \in seats(rooms[k]) :
    i # j => rooms[k].players[i].socketId # rooms[k].players[j].socketId

\* `sock` holds a seat of `room`
seated(room, sock) == \E j \in seats(room) : room.players[j].socketId = sock

\* C39: Cabo is called at most once per round: once lastTurnFor is set no
\* turn:cabo succeeds; caboCalledBy and lastTurnFor are both null or name two
\* different seated players; while lastTurnFor is set and the round has not
\* ended, the turn-holder is lastTurnFor.
C39_CaboOncePerRound ==
  \A k \in 1..Len(rooms) :
    LET room == rooms[k]
    IN /\ room.lastTurnFor # Null => \A sock \in Sockets : ~turnCabo(room, sock).ok
       /\ \/ room.caboCalledBy = Null /\ room.lastTurnFor = Null
          \/ /\ room.caboCalledBy # Null /\ room.lastTurnFor # Null
             /\ room.caboCalledBy # room.lastTurnFor
             /\ seated(room, room.caboCalledBy) /\ seated(room, room.lastTurnFor)
       /\ room.lastTurnFor # Null /\ room.phase # "ENDED" =>
            currentTurnSocket(room) = room.lastTurnFor
       /\ \A sock \in Sockets :
            LET res == turnCabo(room, sock)
            IN res.ok => /\ room.caboCalledBy = Null /\ room.lastTurnFor = Null
                         /\ res.room.caboCalledBy = sock
                         /\ res.room.lastTurnFor \notin {Null, sock}

\* Cabo has been called, and a second turn:cabo has just been refused
C39_Witness ==
  \E k \in 1..Len(rooms) :
    /\ rooms[k].caboCalledBy # Null
    /\ rooms[k].lastTurnFor # Null
    /\ rooms[k].phase # "ENDED"
    /\ ack = Ack(FALSE, "Call Cabo at start of your turn", "")

\* C40: centerPower is set exactly when the phase is CENTER_POWER, and its
\* owner is then the turn-holder; every exit from CENTER_POWER, a disconnect
\* included, clears it.
C40_CenterPowerIffPhase ==
  \A k \in 1..Len(rooms) :
    /\ rooms[k].centerPower # <<>> <=> rooms[k].phase = "CENTER_POWER"
    /\ rooms[k].centerPower # <<>> =>
         rooms[k].centerPower[1].ownerSocketId = currentTurnSocket(rooms[k])

====
